---- MODULE Spec2Model ----
(***************************************************************************)
(* txdarn.protocol: one SockJS request session.                            *)
(*                                                                         *)
(* A session is a RequestSessionProtocolWrapper (the adapter), the         *)
(* RequestSessionMachine it drives, its TimeoutClock, its termination      *)
(* Deferred, the SessionHouse entry that holds it and the wrapped          *)
(* application protocol.  Every handler is a function from a session       *)
(* record to a session record; a handler that calls another handler is     *)
(* the composition of the two, so a re-entrant call (flushBuffer ->        *)
(* writeData -> write) is modelled as the code runs it.  An exception      *)
(* sets the field "raised" and every later step of the same call chain is  *)
(* skipped, as Python unwinds it.                                          *)
(*                                                                         *)
(* The wrapped protocol is either a protocol that records what it is told  *)
(* (Spec, NoDataSpec, ExpiredClockSpec, LostSpec, HouseSpec) or a          *)
(* SockJSProtocol with its SockJSProtocolMachine and HeartbeatClock        *)
(* (StackSpec, XHRSpec, StreamingSpec).  MachineSpec is a                  *)
(* SockJSProtocolMachine and its HeartbeatClock on a wire transport, with  *)
(* no request session under it.  In LostSpec the transport reports the     *)
(* lost connection to the adapter itself; in HouseSpec requests come with  *)
(* any kind of postpath and a terminated session's sessionID is used       *)
(* again; XHRSpec and StreamingSpec have the factory build XHRSessions     *)
(* and XHRStreamingSessions.                                               *)
(* AnyClassSpec starts the house with a factory of any of the three        *)
(* session classes; ClockSpec is a HeartbeatClock whose callback may stop  *)
(* it; LostAgainSpec is LostSpec with connectionLost called again on an    *)
(* adapter that has dropped its machine.                                   *)
(***************************************************************************)
EXTENDS Integers, Sequences, FiniteSets, TLC

(* ------------------------------ bounds -------------------------------- *)
\* requests that ever reach a session whose application writes data
MaxRequests == 2
\* write and heartbeat inputs the application ever makes
MaxOutputs == 2
\* TimeoutClock.length, in ticks of the model's clock
TimeoutLength == 1
\* HeartbeatClock.period, in ticks of the model's clock
HeartbeatPeriod == 2
\* XHRStreamingSessionFactory.maximumBytes
MaximumBytes == 2
\* calls ever made on the termination Deferred once connectionLost is called
\* on an adapter without a machine: the first, and one that comes too late
MaxTerminations == 2

(* ------------------------- program constants -------------------------- *)
NoRequest == 0
NoCall == -1
\* a DelayedCall that has run and is still referred to
CalledCall == -2
None == "None"

\* DISCONNECT.GO_AWAY / DISCONNECT.STILL_OPEN
GO_AWAY == [code |-> 3000, text |-> "Go away!"]
STILL_OPEN == [code |-> 2010, text |-> "Another connection still open"]
NoReason == [code |-> 0, text |-> ""]
DISCONNECT == {GO_AWAY, STILL_OPEN}

\* RequestSessionMachine states
neverConnected == "neverConnected"
connectedHaveTransport == "connectedHaveTransport"
connectedNoTransportEmptyBuffer == "connectedNoTransportEmptyBuffer"
connectedNoTransportPending == "connectedNoTransportPending"
loseConnectionEmptyBuffer == "loseConnectionEmptyBuffer"
loseConnectionPending == "loseConnectionPending"
disconnected == "disconnected"
\* SockJSProtocolMachine states; its third is disconnected
notYetConnected == "notYetConnected"
connected == "connected"
MachineStates ==
    {neverConnected, connectedHaveTransport, connectedNoTransportEmptyBuffer,
     connectedNoTransportPending, loseConnectionEmptyBuffer,
     loseConnectionPending, disconnected}

\* connection-lost reasons (twisted.internet.error, SessionTimeout)
ConnectionDone == "ConnectionDone"
ConnectionLost == "ConnectionLost"
SessionTimeout == "SessionTimeout"
EXPIRED == "EXPIRED"

VARIABLES
    state,               \* RequestSessionMachine: the automaton's state
    buffer,              \* RequestSessionMachine.buffer
    closeReason,         \* RequestSessionMachine._closeReason
    request,             \* RequestSessionProtocolWrapper.request
    finishedNotifier,    \* RequestSessionProtocolWrapper.finishedNotifier: None,
                         \* "pending" (not yet fired) or "called"
    disconnecting,       \* ProtocolWrapper.disconnecting
    sessionMachine,      \* RequestSessionProtocolWrapper.sessionMachine is not None
    termination,         \* terminationDeferred: every callback/errback call made on it
    expired,             \* TimeoutClock.expired
    timeoutCall,         \* TimeoutClock.timeoutCall: the time left until the
                         \* pending call is due, or NoCall
    written,             \* request.written, per request
    finished,            \* request.finish() calls, per request
    connectionMadeCalls, \* wrapped protocol: connectionMade calls
    connectionsLost,     \* wrapped protocol: reasons given to connectionLost
    sessions,            \* SessionHouse.sessions holds the sessionID
    logged,              \* failures handed to eliot.writeFailure
    nextRequest,         \* requests created so far
    outputs,             \* write and heartbeat inputs made so far
    detachedWrites,      \* the data of every write made while no request was
                         \* attached, in the order the writes were made
    wrappedProtocol,     \* the class of the protocol the session wraps:
                         \* "TestProtocol", which records what it is told,
                         \* or "SockJSProtocol"
    sockJSMachine,       \* SockJSProtocol.sockJSMachine: the automaton's
                         \* state, or None once connectionLost dropped it
    transport,           \* SockJSProtocolMachine.transport: None, "wire" (a
                         \* SockJSWireProtocolWrapper on a stream) or
                         \* "session" (the RequestSessionProtocolWrapper)
    pendingHeartbeat,    \* HeartbeatClock.pendingHeartbeat: the time left
                         \* until the pending call is due, NoCall or CalledCall
    stopped,             \* HeartbeatClock.stopped
    stream,              \* what the "wire" transport's stream was given, each
                         \* item with the time it was given at
    now,                 \* the reactor's clock, where the model keeps it
    sessionClass,        \* the class the factory builds sessions of:
                         \* "RequestSessionProtocolWrapper", "XHRSession"
                         \* or "XHRStreamingSession"
    bytesWritten,        \* XHRStreamingSession.bytesWritten
    sessionsMade,        \* SessionHouse.makeSession calls so far
    returned,            \* what the house's method returned to the last
                         \* request, None when the step was not a request
    trace,               \* the last step: its input, then the adapter methods
                         \* it ran, in order
    raised               \* the exception the last step's caller saw, or None

vars == <<state, buffer, closeReason, request, finishedNotifier, disconnecting,
          sessionMachine, termination, expired, timeoutCall, written,
          finished, connectionMadeCalls, connectionsLost, sessions, logged,
          nextRequest, outputs, detachedWrites, wrappedProtocol,
          sockJSMachine, transport, pendingHeartbeat, stopped, stream, now,
          sessionClass, bytesWritten, sessionsMade, returned, trace, raised>>

\* request ids: MaxRequests of them on a session that writes data, one more
\* on a session that does not
Requests == 1..(MaxRequests + 1)

(* ------------------------- the session record ------------------------- *)
\* the session as the handlers see it when the input `input` arrives, with
\* the input and its argument at the head of the trace
Cur(input, arg) ==
    [state |-> state, buffer |-> buffer, closeReason |-> closeReason,
     request |-> request, finishedNotifier |-> finishedNotifier,
     disconnecting |-> disconnecting, sessionMachine |-> sessionMachine,
     termination |-> termination, expired |-> expired,
     timeoutCall |-> timeoutCall, written |-> written,
     finished |-> finished, connectionMadeCalls |-> connectionMadeCalls,
     connectionsLost |-> connectionsLost, sessions |-> sessions,
     logged |-> logged, wrappedProtocol |-> wrappedProtocol,
     sockJSMachine |-> sockJSMachine, transport |-> transport,
     pendingHeartbeat |-> pendingHeartbeat, stopped |-> stopped,
     stream |-> stream, now |-> now, sessionClass |-> sessionClass,
     bytesWritten |-> bytesWritten, sessionsMade |-> sessionsMade,
     returned |-> None,
     trace |-> <<input, arg>>, raised |-> None]

\* the session after the handler returned
Commit(s) ==
    /\ state' = s.state
    /\ buffer' = s.buffer
    /\ closeReason' = s.closeReason
    /\ request' = s.request
    /\ finishedNotifier' = s.finishedNotifier
    /\ disconnecting' = s.disconnecting
    /\ sessionMachine' = s.sessionMachine
    /\ termination' = s.termination
    /\ expired' = s.expired
    /\ timeoutCall' = s.timeoutCall
    /\ written' = s.written
    /\ finished' = s.finished
    /\ connectionMadeCalls' = s.connectionMadeCalls
    /\ connectionsLost' = s.connectionsLost
    /\ sessions' = s.sessions
    /\ logged' = s.logged
    /\ wrappedProtocol' = s.wrappedProtocol
    /\ sockJSMachine' = s.sockJSMachine
    /\ transport' = s.transport
    /\ pendingHeartbeat' = s.pendingHeartbeat
    /\ stopped' = s.stopped
    /\ stream' = s.stream
    /\ sessionClass' = s.sessionClass
    /\ bytesWritten' = s.bytesWritten
    /\ sessionsMade' = s.sessionsMade
    /\ returned' = s.returned
    /\ now' = s.now
    /\ trace' = s.trace
    /\ raised' = s.raised

\* raise e: the rest of the call chain is skipped
Raise(s, e) == IF s.raised # None THEN s ELSE [s EXCEPT !.raised = e]

\* record that the adapter method `name` ran
Ran(s, name) == [s EXCEPT !.trace = Append(@, name)]

\* a Deferred's callback caught whatever its function raised
Caught(s) == [s EXCEPT !.raised = None]

(* ------------------------------- codec -------------------------------- *)
RECURSIVE JoinItems(_)
JoinItems(items) ==
    IF Len(items) = 0 THEN ""
    ELSE IF Len(items) = 1 THEN items[1]
    ELSE items[1] \o "," \o JoinItems(Tail(items))

\* a JSON string literal
jsonString(m) == "\"" \o m \o "\""

\* a JSON array of already encoded items, separators=(',', ':')
jsonArray(items) == "[" \o JoinItems(items) \o "]"

\* sockJSJSON(data) for a list of messages
sockJSJSON(data) == jsonArray([i \in 1..Len(data) |-> jsonString(data[i])])

\* sockJSJSON(reason.value) for a DISCONNECT constant
sockJSJSONReason(reason) ==
    jsonArray(<<ToString(reason.code), jsonString(reason.text)>>)

\* SockJSWireProtocolWrapper.closeFrame
closeFrame(reason) == "c" \o sockJSJSONReason(reason)

\* the data frame SockJSWireProtocolWrapper.writeData builds
dataFrame(data) == "a" \o sockJSJSON(data)

(* ---------------------------- TimeoutClock ---------------------------- *)
\* start as it would be if it armed a call whether or not the clock expired
start_ignoresExpired(s) ==
    IF s.raised # None THEN s
    ELSE IF s.timeoutCall = NoCall
         THEN [s EXCEPT !.timeoutCall = TimeoutLength]
         ELSE s

\* start as it would be if it armed a new call whether or not one is pending
start_rearms(s) ==
    IF s.raised # None THEN s
    ELSE IF s.expired THEN Raise(s, "RuntimeError")
    ELSE [s EXCEPT !.timeoutCall = TimeoutLength]

\* TimeoutClock.start
TC_start(s) ==
    IF s.raised # None THEN s
    ELSE IF s.expired THEN Raise(s, "RuntimeError")
    ELSE IF s.timeoutCall = NoCall
         THEN [s EXCEPT !.timeoutCall = TimeoutLength]
         ELSE s

\* TimeoutClock.reset
TC_reset(s) ==
    IF s.raised # None THEN s
    ELSE IF s.expired THEN Raise(s, "RuntimeError")
    ELSE IF s.timeoutCall # NoCall
         THEN [s EXCEPT !.timeoutCall = NoCall]
         ELSE s

\* TimeoutClock.stop
TC_stop(s) ==
    IF s.raised # None THEN s
    ELSE IF ~s.expired /\ s.timeoutCall # NoCall
         THEN [s EXCEPT !.timeoutCall = NoCall]
         ELSE s

(* ------------------------ the request transport ----------------------- *)
\* request.write(data)
RequestWrite(s, r, data) == [s EXCEPT !.written[r] = Append(@, data)]

\* request.finish()
RequestFinish(s, r) == [s EXCEPT !.finished[r] = @ + 1]

\* RequestSessionProtocolWrapper.write: the frame and a newline, to the
\* current request
W_write(s, data) ==
    IF s.raised # None THEN s
    ELSE IF s.request = NoRequest THEN Raise(s, "AttributeError")
    ELSE RequestWrite(s, s.request, data \o "\n")

\* RequestSessionProtocolWrapper.closeOtherRequest
W_closeOtherRequest(s, r, reason) ==
    IF s.raised # None THEN s
    ELSE RequestFinish(
             RequestWrite(Ran(s, "closeOtherRequest"), r,
                          closeFrame(reason) \o "\n"), r)

\* SockJSWireProtocolWrapper.writeOpen
Wire_writeOpen(s) == W_write(s, "o")

\* SockJSWireProtocolWrapper.writeHeartbeat
Wire_writeHeartbeat(s) == W_write(s, "h")

\* SockJSWireProtocolWrapper.writeData
Wire_writeData(s, data) == W_write(s, dataFrame(data))

(* --------------------------- HeartbeatClock --------------------------- *)
\* HeartbeatClock._createHeartbeatCall
HB_createHeartbeatCall(s) ==
    IF s.raised # None THEN s
    ELSE [s EXCEPT !.pendingHeartbeat = HeartbeatPeriod]

\* schedule as it would be if it left a pending call where it is
schedule_keepsPending(s) ==
    IF s.raised # None THEN s
    ELSE IF s.stopped THEN Raise(s, "RuntimeError")
    ELSE IF s.pendingHeartbeat = NoCall THEN HB_createHeartbeatCall(s)
    ELSE s

\* schedule as it would be if it did not look at stopped
schedule_ignoresStopped(s) ==
    IF s.raised # None THEN s
    ELSE IF s.pendingHeartbeat = NoCall THEN HB_createHeartbeatCall(s)
    ELSE [s EXCEPT !.pendingHeartbeat = HeartbeatPeriod]

\* HeartbeatClock.schedule: DelayedCall.reset raises on a call that has run
HB_schedule(s) ==
    IF s.raised # None THEN s
    ELSE IF s.stopped THEN Raise(s, "RuntimeError")
    ELSE IF s.pendingHeartbeat = NoCall THEN HB_createHeartbeatCall(s)
    ELSE IF s.pendingHeartbeat = CalledCall THEN Raise(s, "AlreadyCalled")
    ELSE [s EXCEPT !.pendingHeartbeat = HeartbeatPeriod]

\* HeartbeatClock.stop: DelayedCall.cancel raises on a call that has run
HB_stop(s) ==
    IF s.raised # None THEN s
    ELSE IF s.stopped THEN s
    ELSE LET halted == [s EXCEPT !.stopped = TRUE]
         IN  IF halted.pendingHeartbeat = NoCall THEN halted
             ELSE IF halted.pendingHeartbeat = CalledCall
                  THEN Raise(halted, "AlreadyCalled")
             ELSE [halted EXCEPT !.pendingHeartbeat = NoCall]

(* ------------------ SockJSProtocolMachine, first part ----------------- *)
\* the stream under a SockJSWireProtocolWrapper is given an item
StreamWrite(s, item) ==
    IF s.raised # None THEN s
    ELSE [s EXCEPT !.stream = Append(@, <<s.now, item>>)]

\* SockJSProtocolMachine.receive
PM_receive(s) ==
    IF s.raised # None THEN s
    ELSE IF s.sockJSMachine = connected THEN s
    ELSE Raise(s, "NoTransition")

\* SockJSProtocolMachine._stopHeartbeat
PM_stopHeartbeat(s) ==
    IF s.raised # None THEN s
    ELSE HB_stop([s EXCEPT !.transport = None])

\* SockJSProtocolMachine.close
PM_close(s) ==
    IF s.raised # None THEN s
    ELSE IF s.sockJSMachine = connected
         THEN PM_stopHeartbeat([s EXCEPT !.sockJSMachine = disconnected])
    ELSE IF s.sockJSMachine = disconnected THEN s
    ELSE Raise(s, "NoTransition")

(* --------------------- SockJSProtocol, first part --------------------- *)
\* SockJSProtocol.dataReceived
SP_dataReceived(s, data) ==
    IF s.raised # None THEN s
    ELSE IF s.sockJSMachine = None THEN Raise(s, "AttributeError")
    ELSE LET received == PM_receive(s)
         IN  IF received.raised # None THEN received
             ELSE Ran(received, "app.dataReceived")

\* SockJSProtocol.connectionLost
SP_connectionLost(s, reason) ==
    IF s.raised # None THEN s
    ELSE IF s.sockJSMachine = None THEN Raise(s, "AttributeError")
    ELSE LET closed == PM_close(s)
         IN  IF closed.raised # None THEN closed
             ELSE [closed EXCEPT !.sockJSMachine = None,
                                 !.connectionsLost = Append(@, reason)]

\* the wrapped protocol's dataReceived
App_dataReceived(s, decoded) ==
    IF s.raised # None THEN s
    ELSE IF s.wrappedProtocol = "SockJSProtocol"
         THEN SP_dataReceived(s, decoded)
    ELSE Ran(s, "app.dataReceived")

\* dataReceived as it would be if it handed on whatever it was given
dataReceived_unchecked(s, payload) == App_dataReceived(s, payload)

\* SockJSWireProtocolWrapper.dataReceived: payload is "" (empty), "!!!" (not
\* JSON) or a JSON text
Wire_dataReceived(s, payload) ==
    IF s.raised # None THEN s
    ELSE IF payload = "" THEN Raise(s, "InvalidData(NO_PAYLOAD)")
    ELSE IF payload = "!!!" THEN Raise(s, "InvalidData(BAD_JSON)")
    ELSE App_dataReceived(s, payload)

\* ProtocolWrapper.connectionLost: the wrapped protocol's connectionLost(reason)
Wire_connectionLost(s, reason) ==
    IF s.raised # None THEN s
    ELSE IF s.wrappedProtocol = "SockJSProtocol"
         THEN SP_connectionLost(s, reason)
    ELSE [s EXCEPT !.connectionsLost = Append(@, reason)]

\* ProtocolWrapper.loseConnection
Wire_loseConnection(s) ==
    IF s.raised # None THEN s
    ELSE [s EXCEPT !.disconnecting = TRUE]

(* ----------- RequestSessionProtocolWrapper: the machine's hooks -------- *)
\* RequestSessionProtocolWrapper.beginRequest
W_beginRequest(s) ==
    IF s.raised # None THEN s
    ELSE IF s.request = NoRequest THEN Raise(s, "AttributeError")
    ELSE TC_reset([Ran(s, "beginRequest") EXCEPT !.finishedNotifier = "pending"])

\* RequestSessionProtocolWrapper.establishConnection
W_establishConnection(s, r) ==
    IF s.raised # None THEN s ELSE Ran(s, "establishConnection")

\* RequestSessionProtocolWrapper.completeDataReceived
W_completeDataReceived(s, data) ==
    IF s.raised # None THEN s
    ELSE Wire_dataReceived(Ran(s, "completeDataReceived"), data)

\* RequestSessionProtocolWrapper.completeWrite
W_completeWrite(s, data) ==
    IF s.raised # None THEN s
    ELSE Wire_writeData(Ran(s, "completeWrite"), data)

\* RequestSessionProtocolWrapper.completeHeartbeat
W_completeHeartbeat(s) ==
    IF s.raised # None THEN s
    ELSE Wire_writeHeartbeat(Ran(s, "completeHeartbeat"))

\* RequestSessionProtocolWrapper.completeConnectionLost
W_completeConnectionLost(s, reason) ==
    IF s.raised # None THEN s
    ELSE Wire_connectionLost(Ran(s, "completeConnectionLost"), reason)

\* RequestSessionProtocolWrapper.completeLoseConnection
W_completeLoseConnection(s) ==
    IF s.raised # None THEN s
    ELSE Wire_loseConnection(Ran(s, "completeLoseConnection"))

(* ---- connectionLost: the machine's side and the wrapper's, ahead of ---- *)
(* ---- finishCurrentRequest, whose notifier chain ends in them        ---- *)
\* automat: the input has no transition in the current state
NoTransition(s) == Raise(s, "NoTransition")

\* automat sets the new state before it runs the outputs
Enter(s, st) == [s EXCEPT !.state = st]

\* _dropRequest as it would be if the adapter kept its request
dropRequest_keepsRequest(s, reason) ==
    IF s.raised # None THEN s
    ELSE Ran(s, "dropRequest")

\* RequestSessionMachine._dropRequest
M_dropRequest(s, reason) ==
    IF s.raised # None THEN s
    ELSE [Ran(s, "dropRequest") EXCEPT !.request = NoRequest]

\* _closeProtocol as it would be if it too turned ConnectionDone into
\* SessionTimeout
closeProtocol_timesOut(s, reason) ==
    W_completeConnectionLost(
        s, IF reason = ConnectionDone THEN SessionTimeout ELSE reason)

\* RequestSessionMachine._closeProtocol
M_closeProtocol(s, reason) == W_completeConnectionLost(s, reason)

\* _timedOut as it would be if it passed the reason on as it is
timedOut_passesReason(s, reason) ==
    IF s.raised # None THEN s
    ELSE W_completeConnectionLost(Ran(s, "timedOut"), reason)

\* RequestSessionMachine._timedOut
M_timedOut(s, reason) ==
    IF s.raised # None THEN s
    ELSE W_completeConnectionLost(
             Ran(s, "timedOut"),
             IF reason = ConnectionDone THEN SessionTimeout ELSE reason)

\* RequestSessionMachine.connectionLost
M_connectionLost(s, reason) ==
    IF s.raised # None THEN s
    ELSE CASE s.state = connectedHaveTransport ->
                M_closeProtocol(M_dropRequest(Enter(s, disconnected), reason),
                                reason)
           [] s.state \in {connectedNoTransportEmptyBuffer,
                           loseConnectionEmptyBuffer} ->
                M_closeProtocol(Enter(s, disconnected), reason)
           [] s.state = connectedNoTransportPending ->
                M_timedOut(M_dropRequest(Enter(s, disconnected), reason),
                           reason)
           [] s.state = loseConnectionPending ->
                M_timedOut(Enter(s, disconnected), reason)
           [] OTHER -> NoTransition(s)

\* SessionHouse._sessionClosed, then the eliot.writeFailure errback behind
\* it: with a Failure, failure.trap names the module twisted.python.failure,
\* which has no trap, so an AttributeError is what reaches the logger
SH_sessionClosed(s, isFailure) ==
    LET gone == [s EXCEPT !.sessions = FALSE]
    IN  IF isFailure
        THEN [gone EXCEPT !.logged = Append(@, "AttributeError")]
        ELSE gone

\* terminationDeferred.errback(reason): _timedOut is a callback and is
\* skipped, the house's hook runs
D_errback(s, reason) ==
    IF s.raised # None THEN s
    ELSE LET called == [s EXCEPT !.termination = Append(@, <<"errback", reason>>)]
         IN  IF Len(s.termination) > 0
             THEN Raise(called, "AlreadyCalledError")
             ELSE SH_sessionClosed(called, TRUE)

\* connectionLost's last two lines: the machine is told, with the session t
\* as the first lines left it
W_machineLost(t, reason) ==
    IF t.raised # None THEN t
    ELSE IF ~t.sessionMachine THEN Raise(t, "AttributeError")
    ELSE M_connectionLost(t, reason)

\* connectionLost's last line as it would be if the adapter kept the machine
dropMachine_keepsMachine(m) == m

\* and the adapter drops the machine, m being the session as the machine
\* left it
W_dropMachine(m) ==
    IF m.raised # None THEN m
    ELSE [m EXCEPT !.sessionMachine = FALSE]

\* connectionLost as it would be if it did not look at disconnecting
connectionLost_alwaysTerminates(s, reason) ==
    IF s.raised # None THEN s
    ELSE W_dropMachine(W_machineLost(TC_stop(D_errback(s, reason)), reason))

\* connectionLost as it would be if it left the timeout clock alone
connectionLost_keepsTimeout(s, reason) ==
    IF s.raised # None THEN s
    ELSE W_dropMachine(
             W_machineLost(IF ~s.disconnecting
                           THEN D_errback(s, reason)
                           ELSE s,
                           reason))

\* RequestSessionProtocolWrapper.connectionLost
W_connectionLost(s, reason) ==
    IF s.raised # None THEN s
    ELSE W_dropMachine(
             W_machineLost(IF ~s.disconnecting
                           THEN TC_stop(D_errback(s, reason))
                           ELSE s,
                           reason))

\* _trapCancellation as it would be if it trapped nothing
trapCancellation_trapsNothing(failure) == failure

\* _trapCancellation, the first errback of the finished-notifier: what it
\* hands to the next errback, None when it trapped the failure
trapCancellation(failure) ==
    IF failure = "CancelledError" THEN None ELSE failure

\* the finished-notifier fails: _trapCancellation, then connectionLost with
\* what that let through (beginRequest's two addErrback calls)
N_errback(s, failure) ==
    IF s.raised # None THEN s
    ELSE LET called == [s EXCEPT !.finishedNotifier = "called"]
         IN  IF trapCancellation(failure) = None THEN called
             ELSE W_connectionLost(called, trapCancellation(failure))

\* finishedNotifier.cancel(): a Deferred that has not fired fails with
\* CancelledError, one that has is left alone
N_cancel(s) ==
    IF s.raised # None THEN s
    ELSE IF s.finishedNotifier = "pending" THEN N_errback(s, "CancelledError")
    ELSE s

\* finishCurrentRequest as it would be if it did not start the timeout
finishCurrentRequest_noTimeout(s) ==
    IF s.raised # None THEN s
    ELSE IF s.request = NoRequest THEN Raise(s, "AttributeError")
    ELSE [RequestFinish(Ran(s, "finishCurrentRequest"), s.request)
             EXCEPT !.request = NoRequest,
                    !.finishedNotifier = None]

\* finishCurrentRequest after the notifier was cancelled: the request is
\* finished and cleared and the timeout started
W_finishRequest(cancelled) ==
    IF cancelled.raised # None THEN cancelled
    ELSE IF cancelled.request = NoRequest
         THEN Raise(cancelled, "AttributeError")
    ELSE TC_start([RequestFinish(Ran(cancelled, "finishCurrentRequest"),
                                 cancelled.request)
                      EXCEPT !.request = NoRequest,
                             !.finishedNotifier = None])

\* RequestSessionProtocolWrapper.finishCurrentRequest
W_finishCurrentRequest(s) ==
    IF s.raised # None THEN s
    ELSE W_finishRequest(IF s.finishedNotifier # None THEN N_cancel(s) ELSE s)

(* ---- detachFromRequest, and what the session classes call it from: ---- *)
(* ---- writeOpen on the way from the first attach, and completeWrite  ---- *)
\* RequestSessionMachine._closeRequest
M_closeRequest(s) == W_finishCurrentRequest(s)

\* RequestSessionMachine.detach
M_detach(s) ==
    IF s.raised # None THEN s
    ELSE CASE s.state = connectedHaveTransport ->
                M_closeRequest(Enter(s, connectedNoTransportEmptyBuffer))
           [] s.state \in {connectedNoTransportEmptyBuffer,
                           connectedNoTransportPending,
                           loseConnectionPending} -> s
           [] OTHER -> NoTransition(s)

\* RequestSessionProtocolWrapper.detachFromRequest
W_detachFromRequest(s) ==
    IF s.raised # None THEN s
    ELSE IF ~s.sessionMachine THEN Raise(s, "AttributeError")
    ELSE M_detach(s)

\* XHRSession.writeOpen
XHR_writeOpen(s) == W_detachFromRequest(Wire_writeOpen(s))

\* n copies of the character c
RECURSIVE Repeat(_, _)
Repeat(c, n) ==
    IF n = 0 THEN ""
    ELSE LET half == Repeat(c, n \div 2)
         IN  half \o half \o (IF n % 2 = 1 THEN c ELSE "")

\* XHRStreamingSession.prelude
PreludeLength == 2048
prelude == Repeat("h", PreludeLength)

\* writeOpen as it would be if the prelude came after the open frame
writeOpen_preludeLast(s) == W_write(Wire_writeOpen(s), prelude)

\* XHRStreamingSession.writeOpen
XHRS_writeOpen(s) == Wire_writeOpen(W_write(s, prelude))

\* writeOpen of the session's class
Session_writeOpen(s) ==
    CASE s.sessionClass = "XHRSession" -> XHR_writeOpen(s)
      [] s.sessionClass = "XHRStreamingSession" -> XHRS_writeOpen(s)
      [] OTHER -> Wire_writeOpen(s)

\* transport.writeOpen(): a stream transport inherits it from
\* SockJSWireProtocolWrapper, a session may override it
T_writeOpen(s) ==
    IF s.raised # None THEN s
    ELSE IF s.transport = "session" THEN Session_writeOpen(s)
    ELSE StreamWrite(s, "o")

\* SockJSProtocolMachine._connectionEstablished
PM_connectionEstablished(s, t) ==
    IF s.raised # None THEN s
    ELSE HB_schedule(T_writeOpen([s EXCEPT !.transport = t]))

\* SockJSProtocolMachine.connect
PM_connect(s, t) ==
    IF s.raised # None THEN s
    ELSE IF s.sockJSMachine = notYetConnected
         THEN PM_connectionEstablished(
                  [s EXCEPT !.sockJSMachine = connected], t)
    ELSE Raise(s, "NoTransition")

\* SockJSProtocol.connectionMade
SP_connectionMade(s) ==
    IF s.raised # None THEN s
    ELSE IF s.sockJSMachine = None THEN Raise(s, "AttributeError")
    ELSE PM_connect(s, "session")

\* RequestSessionProtocolWrapper.completeConnection: the wrapped protocol's
\* makeConnection, and so its connectionMade
W_completeConnection(s) ==
    IF s.raised # None THEN s
    ELSE LET made == IF s.wrappedProtocol = "SockJSProtocol"
                     THEN SP_connectionMade(Ran(s, "completeConnection"))
                     ELSE Ran(s, "completeConnection")
         IN  IF made.raised # None THEN made
             ELSE [made EXCEPT !.connectionMadeCalls = @ + 1]

\* the bytes of the messages in data: sum(map(len, data))
RECURSIVE SumLen(_)
SumLen(data) ==
    IF data = <<>> THEN 0 ELSE Len(Head(data)) + SumLen(Tail(data))

\* completeWrite after the frame was written, w being the session then and
\* limit the count at which the request is detached
XHRS_count(w, data, limit) ==
    IF w.raised # None THEN w
    ELSE IF w.bytesWritten + SumLen(data) >= limit
         THEN W_detachFromRequest([w EXCEPT !.bytesWritten = 0])
    ELSE [w EXCEPT !.bytesWritten = @ + SumLen(data)]

\* completeWrite as it would be if it detached only above the limit
completeWrite_strictLimit(s, data) ==
    IF s.raised # None THEN s
    ELSE XHRS_count(W_completeWrite(s, data), data, MaximumBytes + 1)

\* XHRStreamingSession.completeWrite
XHRS_completeWrite(s, data) ==
    IF s.raised # None THEN s
    ELSE XHRS_count(W_completeWrite(s, data), data, MaximumBytes)

\* completeWrite of the session's class
Session_completeWrite(s, data) ==
    IF s.sessionClass = "XHRStreamingSession" THEN XHRS_completeWrite(s, data)
    ELSE W_completeWrite(s, data)

(* ------------------- RequestSessionMachine: outputs ------------------- *)

\* RequestSessionMachine._openRequest
M_openRequest(s, r) ==
    IF s.raised # None THEN s
    ELSE IF s.request # NoRequest THEN Raise(s, "AssertionError")
    ELSE [Ran(s, "openRequest") EXCEPT !.request = r]

\* RequestSessionMachine._establishConnection
M_establishConnection(s, r) == W_establishConnection(s, r)

\* RequestSessionMachine._completeConnection
M_completeConnection(s, r) == W_completeConnection(s)

\* _beginRequest as it would be if every request that is begun also
\* connected the wrapped protocol
beginRequest_connects(s, r) == W_completeConnection(W_beginRequest(s))

\* RequestSessionMachine._beginRequest
M_beginRequest(s, r) == W_beginRequest(s)

\* RequestSessionMachine._completeDataReceived
M_completeDataReceived(s, data) == W_completeDataReceived(s, data)

\* _bufferWrite as it would be if it put the newest data first
bufferWrite_prepends(s, data) ==
    IF s.raised # None THEN s
    ELSE [Ran(s, "bufferWrite") EXCEPT !.buffer = data \o @]

\* _bufferWrite as it would be if the newest data replaced the buffer
bufferWrite_replaces(s, data) ==
    IF s.raised # None THEN s
    ELSE [Ran(s, "bufferWrite") EXCEPT !.buffer = data]

\* RequestSessionMachine._bufferWrite
M_bufferWrite(s, data) ==
    IF s.raised # None THEN s
    ELSE [Ran(s, "bufferWrite") EXCEPT !.buffer = @ \o data]

\* _dumpBuffer as it would be if it left the buffer as it is
dumpBuffer_keepsBuffer(s) ==
    IF s.raised # None THEN s
    ELSE Ran(s, "dumpBuffer")

\* RequestSessionMachine._dumpBuffer
M_dumpBuffer(s) ==
    IF s.raised # None THEN s
    ELSE [Ran(s, "dumpBuffer") EXCEPT !.buffer = <<>>]

\* RequestSessionMachine._directWrite
M_directWrite(s, data) == Session_completeWrite(s, data)

\* RequestSessionMachine._directHeartbeat
M_directHeartbeat(s) == W_completeHeartbeat(s)

\* _closeDuplicateRequest as it would be if it closed the incumbent request
\* and kept the newcomer
closeDuplicateRequest_closesIncumbent(s, r) ==
    IF s.raised # None THEN s
    ELSE IF r # s.request
         THEN [RequestFinish(
                   RequestWrite(Ran(s, "closeOtherRequest"), s.request,
                                closeFrame(STILL_OPEN) \o "\n"), s.request)
                  EXCEPT !.request = r]
    ELSE s

\* RequestSessionMachine._closeDuplicateRequest
M_closeDuplicateRequest(s, r) ==
    IF s.raised # None THEN s
    ELSE IF r # s.request THEN W_closeOtherRequest(s, r, STILL_OPEN)
    ELSE s

\* _loseConnection as it would be if it told the adapter twice
loseConnection_twice(s) ==
    W_completeLoseConnection(W_completeLoseConnection(s))

\* RequestSessionMachine._loseConnection
M_loseConnection_output(s) == W_completeLoseConnection(s)

\* _storeCloseReason as it would be if the first reason stored were kept
storeCloseReason_keepsFirst(s, reason) ==
    IF s.raised # None THEN s
    ELSE IF s.closeReason # NoReason THEN Ran(s, "storeCloseReason")
    ELSE [Ran(s, "storeCloseReason") EXCEPT !.closeReason = reason]

\* RequestSessionMachine._storeCloseReason
M_storeCloseReason(s, reason) ==
    IF s.raised # None THEN s
    ELSE [Ran(s, "storeCloseReason") EXCEPT !.closeReason = reason]

\* _writeCloseReason as it would be if it finished the request and wrote it
\* nothing
writeCloseReason_finishesOnly(s, r) ==
    IF s.raised # None THEN s
    ELSE IF s.closeReason # NoReason
         THEN RequestFinish(Ran(s, "closeOtherRequest"), r)
         ELSE s

\* RequestSessionMachine._writeCloseReason
M_writeCloseReason(s, r) ==
    IF s.raised # None THEN s
    ELSE IF s.closeReason # NoReason
         THEN W_closeOtherRequest(s, r, s.closeReason)
         ELSE s

(* -------------------- RequestSessionMachine: inputs ------------------- *)
\* RequestSessionMachine.write
M_write(s, data) ==
    IF s.raised # None THEN s
    ELSE CASE s.state = connectedHaveTransport -> M_directWrite(s, data)
           [] s.state \in {connectedNoTransportEmptyBuffer,
                           connectedNoTransportPending} ->
                M_bufferWrite(Enter(s, connectedNoTransportPending), data)
           [] OTHER -> NoTransition(s)

\* receive as it would be if the loseConnection states too handed the data
\* to the adapter
receive_deliversWhenClosing(s, data) ==
    IF s.raised # None THEN s
    ELSE CASE s.state \in {connectedHaveTransport,
                           connectedNoTransportEmptyBuffer,
                           connectedNoTransportPending,
                           loseConnectionEmptyBuffer,
                           loseConnectionPending} ->
                M_completeDataReceived(s, data)
           [] OTHER -> NoTransition(s)

\* RequestSessionMachine.receive
M_receive(s, data) ==
    IF s.raised # None THEN s
    ELSE CASE s.state \in {connectedHaveTransport,
                           connectedNoTransportEmptyBuffer,
                           connectedNoTransportPending} ->
                M_completeDataReceived(s, data)
           [] s.state \in {loseConnectionEmptyBuffer, loseConnectionPending} -> s
           [] OTHER -> NoTransition(s)

\* RequestSessionMachine.writeClose
M_writeClose(s, reason) ==
    IF s.raised # None THEN s
    ELSE CASE s.state \in {connectedHaveTransport,
                           connectedNoTransportEmptyBuffer,
                           connectedNoTransportPending} ->
                M_storeCloseReason(s, reason)
           [] OTHER -> NoTransition(s)

\* heartbeat as it would be if only connectedHaveTransport had a transition
\* for it
heartbeat_rejectedWhenDetached(s) ==
    IF s.raised # None THEN s
    ELSE CASE s.state = connectedHaveTransport -> M_directHeartbeat(s)
           [] OTHER -> NoTransition(s)

\* RequestSessionMachine.heartbeat
M_heartbeat(s) ==
    IF s.raised # None THEN s
    ELSE CASE s.state = connectedHaveTransport -> M_directHeartbeat(s)
           [] s.state \in {connectedNoTransportEmptyBuffer,
                           connectedNoTransportPending} -> s
           [] OTHER -> NoTransition(s)

\* RequestSessionMachine.loseConnection
M_loseConnection(s) ==
    IF s.raised # None THEN s
    ELSE CASE s.state = connectedHaveTransport ->
                M_loseConnection_output(
                    M_closeRequest(Enter(s, loseConnectionEmptyBuffer)))
           [] s.state = connectedNoTransportEmptyBuffer ->
                M_loseConnection_output(Enter(s, loseConnectionEmptyBuffer))
           [] s.state = connectedNoTransportPending ->
                M_loseConnection_output(
                    M_dumpBuffer(Enter(s, loseConnectionPending)))
           [] OTHER -> NoTransition(s)

\* RequestSessionProtocolWrapper.writeData
W_writeData(s, data) ==
    IF s.raised # None THEN s
    ELSE IF ~s.sessionMachine THEN Raise(s, "AttributeError")
    ELSE M_write(Ran(s, "writeData"), data)

\* XHRSession.writeData
XHR_writeData(s, data) == W_detachFromRequest(W_writeData(s, data))

\* writeData of the session's class
Session_writeData(s, data) ==
    IF s.sessionClass = "XHRSession" THEN XHR_writeData(s, data)
    ELSE W_writeData(s, data)

\* _flushBuffer as it would be if it flushed only the newest message
flushBuffer_newestOnly(s, r) ==
    IF s.raised # None THEN s
    ELSE IF r # s.request THEN Raise(s, "AssertionError")
    ELSE LET newest == IF s.buffer = <<>> THEN <<>>
                       ELSE <<s.buffer[Len(s.buffer)]>>
             w == Session_writeData(Ran(s, "flushBuffer"), newest)
         IN  IF w.raised # None THEN w ELSE [w EXCEPT !.buffer = <<>>]

\* _flushBuffer as it would be if it wrote the frame itself and delivered no
\* write to the machine
flushBuffer_noInput(s, r) ==
    IF s.raised # None THEN s
    ELSE IF r # s.request THEN Raise(s, "AssertionError")
    ELSE LET w == W_completeWrite(Ran(s, "flushBuffer"), s.buffer)
         IN  IF w.raised # None THEN w ELSE [w EXCEPT !.buffer = <<>>]

\* RequestSessionMachine._flushBuffer
M_flushBuffer(s, r) ==
    IF s.raised # None THEN s
    ELSE IF r # s.request THEN Raise(s, "AssertionError")
    ELSE LET w == Session_writeData(Ran(s, "flushBuffer"), s.buffer)
         IN  IF w.raised # None THEN w ELSE [w EXCEPT !.buffer = <<>>]

\* RequestSessionMachine.attach
M_attach(s, r) ==
    IF s.raised # None THEN s
    ELSE CASE s.state = neverConnected ->
                M_completeConnection(
                    M_beginRequest(
                        M_establishConnection(
                            M_openRequest(Enter(s, connectedHaveTransport), r),
                            r), r), r)
           [] s.state = connectedHaveTransport -> M_closeDuplicateRequest(s, r)
           [] s.state = connectedNoTransportEmptyBuffer ->
                M_beginRequest(
                    M_openRequest(Enter(s, connectedHaveTransport), r), r)
           [] s.state = connectedNoTransportPending ->
                M_flushBuffer(
                    M_openRequest(Enter(s, connectedHaveTransport), r), r)
           [] s.state \in {loseConnectionEmptyBuffer, loseConnectionPending} ->
                M_writeCloseReason(s, r)
           [] OTHER -> NoTransition(s)

(* ------------- RequestSessionProtocolWrapper: the public side ---------- *)
\* RequestSessionProtocolWrapper.makeConnectionFromRequest
W_makeConnectionFromRequest(s, r) ==
    IF s.raised # None THEN s
    ELSE IF ~s.sessionMachine THEN Raise(s, "AttributeError")
    ELSE M_attach(s, r)

\* RequestSessionProtocolWrapper.dataReceived
W_dataReceived(s, data) ==
    IF s.raised # None THEN s
    ELSE IF ~s.sessionMachine THEN Raise(s, "AttributeError")
    ELSE M_receive(s, data)

\* RequestSessionProtocolWrapper.writeHeartbeat
W_writeHeartbeat(s) ==
    IF s.raised # None THEN s
    ELSE IF ~s.sessionMachine THEN Raise(s, "AttributeError")
    ELSE M_heartbeat(s)

\* RequestSessionProtocolWrapper.writeClose
W_writeClose(s, reason) ==
    IF s.raised # None THEN s
    ELSE IF ~s.sessionMachine THEN Raise(s, "AttributeError")
    ELSE M_writeClose(s, reason)

\* loseConnection as it would be if it did not look at disconnecting
loseConnection_unguarded(s) ==
    IF s.raised # None THEN s
    ELSE LET d == [s EXCEPT !.disconnecting = TRUE]
         IN  IF ~d.sessionMachine THEN Raise(d, "AttributeError")
             ELSE TC_start(M_loseConnection(d))

\* RequestSessionProtocolWrapper.loseConnection
W_loseConnection(s) ==
    IF s.raised # None THEN s
    ELSE IF s.disconnecting THEN s
    ELSE LET d == [s EXCEPT !.disconnecting = TRUE]
         IN  IF ~d.sessionMachine THEN Raise(d, "AttributeError")
             ELSE TC_start(M_loseConnection(d))

(* ------------------ SessionHouse and the termination ------------------ *)

\* _timedOut as it would be if it did not set disconnecting
timedOut_notDisconnecting(s, timeoutReason) ==
    IF s.raised # None THEN s
    ELSE W_connectionLost(s, ConnectionDone)

\* RequestSessionProtocolWrapper._timedOut
W_timedOut(s, timeoutReason) ==
    IF s.raised # None THEN s
    ELSE W_connectionLost([s EXCEPT !.disconnecting = TRUE], ConnectionDone)

\* terminationDeferred.callback(value): _timedOut, then the house's hook
\* with whatever _timedOut left (None, or the Failure of what it raised)
D_callback(s, value) ==
    IF s.raised # None THEN s
    ELSE LET called == [s EXCEPT !.termination = Append(@, <<"callback", value>>)]
         IN  IF Len(s.termination) > 0
             THEN Raise(called, "AlreadyCalledError")
             ELSE LET t == W_timedOut(called, value)
                  IN  SH_sessionClosed(Caught(t), t.raised # None)

\* TimeoutClock._expire
TC_expire(s) ==
    D_callback([s EXCEPT !.expired = TRUE, !.timeoutCall = NoCall], EXPIRED)

\* a request's postpath is a sequence of segments, a segment a sequence of
\* characters; the one sessionID whose entry the model follows
SessionID == <<"i", "d">>

\* validateAndExtractSessionID's None
NoSessionID == <<>>

\* the postpath of a well-formed request for the session
ValidPath == <<<<"s", "v">>, SessionID, <<"x", "h", "r">>>>

\* validateAndExtractSessionID as it would be if it only counted segments
validate_countsOnly(postpath) ==
    IF Len(postpath) # 3 THEN NoSessionID ELSE postpath[2]

\* SessionHouse.validateAndExtractSessionID
validateAndExtractSessionID(postpath) ==
    IF Len(postpath) # 3 THEN NoSessionID
    ELSE IF \E i \in 1..3 :
               \/ postpath[i] = <<>>
               \/ \E j \in 1..Len(postpath[i]) : postpath[i][j] = "."
         THEN NoSessionID
    ELSE postpath[2]

\* SessionHouse.makeSession: the factory builds a new session around a new
\* wrapped protocol; the requests and the log are the world's and stay
SH_makeSession(s) ==
    [s EXCEPT !.state = neverConnected,
              !.buffer = <<>>,
              !.closeReason = NoReason,
              !.request = NoRequest,
              !.finishedNotifier = None,
              !.disconnecting = FALSE,
              !.sessionMachine = TRUE,
              !.termination = <<>>,
              !.expired = FALSE,
              !.timeoutCall = NoCall,
              !.connectionMadeCalls = 0,
              !.connectionsLost = <<>>,
              !.sockJSMachine = notYetConnected,
              !.transport = None,
              !.pendingHeartbeat = NoCall,
              !.stopped = FALSE,
              !.bytesWritten = 0,
              !.sessionsMade = @ + 1]

\* attachToSession as it would be if an entry once made were never replaced
attachToSession_keepsSession(s, postpath, r) ==
    IF s.raised # None THEN s
    ELSE IF validateAndExtractSessionID(postpath) = NoSessionID
         THEN [s EXCEPT !.returned = "False"]
    ELSE LET session == IF s.sessionsMade = 0
                        THEN [SH_makeSession(s) EXCEPT !.sessions = TRUE]
                        ELSE [s EXCEPT !.sessions = TRUE]
             made == W_makeConnectionFromRequest(session, r)
         IN  IF made.raised # None THEN made
             ELSE [made EXCEPT !.returned = "True"]

\* SessionHouse.attachToSession
SH_attachToSession(s, postpath, r) ==
    IF s.raised # None THEN s
    ELSE IF validateAndExtractSessionID(postpath) = NoSessionID
         THEN [s EXCEPT !.returned = "False"]
    ELSE LET session == IF ~s.sessions
                        THEN [SH_makeSession(s) EXCEPT !.sessions = TRUE]
                        ELSE s
             made == W_makeConnectionFromRequest(session, r)
         IN  IF made.raised # None THEN made
             ELSE [made EXCEPT !.returned = "True"]

\* SessionHouse.writeToSession
SH_writeToSession(s, postpath, data) ==
    IF s.raised # None THEN s
    ELSE IF validateAndExtractSessionID(postpath) = NoSessionID
         THEN [s EXCEPT !.returned = "False"]
    ELSE IF ~s.sessions THEN [s EXCEPT !.returned = "False"]
    ELSE LET received == W_dataReceived(s, data)
         IN  IF received.raised # None THEN received
             ELSE [received EXCEPT !.returned = "True"]

(* ----------------- SockJSProtocolMachine, second part ----------------- *)
\* transport.writeData(data)
T_writeData(s, data) ==
    IF s.raised # None THEN s
    ELSE IF s.transport = "session" THEN Session_writeData(s, data)
    ELSE StreamWrite(s, dataFrame(data))

\* transport.writeHeartbeat()
T_writeHeartbeat(s) ==
    IF s.raised # None THEN s
    ELSE IF s.transport = "session" THEN W_writeHeartbeat(s)
    ELSE StreamWrite(s, "h")

\* transport.writeClose(reason)
T_writeClose(s, reason) ==
    IF s.raised # None THEN s
    ELSE IF s.transport = "session" THEN W_writeClose(s, reason)
    ELSE StreamWrite(s, closeFrame(reason))

\* transport.loseConnection()
T_loseConnection(s) ==
    IF s.raised # None THEN s
    ELSE IF s.transport = "session" THEN W_loseConnection(s)
    ELSE StreamWrite(s, "loseConnection")

\* SockJSProtocolMachine._writeToTransport
PM_writeToTransport(s, data) ==
    IF s.raised # None THEN s
    ELSE HB_schedule(T_writeData(s, data))

\* SockJSProtocolMachine.write
PM_write(s, data) ==
    IF s.raised # None THEN s
    ELSE IF s.sockJSMachine = connected THEN PM_writeToTransport(s, data)
    ELSE Raise(s, "NoTransition")

\* SockJSProtocolMachine._writeHeartbeatToTransport
PM_writeHeartbeatToTransport(s) == T_writeHeartbeat(s)

\* SockJSProtocolMachine.heartbeat
PM_heartbeat(s) ==
    IF s.raised # None THEN s
    ELSE IF s.sockJSMachine = connected THEN PM_writeHeartbeatToTransport(s)
    ELSE Raise(s, "NoTransition")

\* SockJSProtocolMachine._writeCloseFrame
PM_writeCloseFrame(s, reason) ==
    IF s.raised # None THEN s
    ELSE LET lost == T_loseConnection(T_writeClose(s, reason))
         IN  IF lost.raised # None THEN lost
             ELSE [lost EXCEPT !.transport = None]

\* _stopHeartbeatWithReason as it would be if the heartbeat were left to
\* the close notification
stopHeartbeatWithReason_deferred(s, reason) == s

\* SockJSProtocolMachine._stopHeartbeatWithReason
PM_stopHeartbeatWithReason(s, reason) == HB_stop(s)

\* SockJSProtocolMachine.disconnect
PM_disconnect(s, reason) ==
    IF s.raised # None THEN s
    ELSE IF s.sockJSMachine = notYetConnected
         THEN [s EXCEPT !.sockJSMachine = disconnected]
    ELSE IF s.sockJSMachine = connected
         THEN PM_stopHeartbeatWithReason(
                  PM_writeCloseFrame([s EXCEPT !.sockJSMachine = disconnected],
                                     reason),
                  reason)
    ELSE Raise(s, "NoTransition")

\* HeartbeatClock._sendHeartbeat, run by the pending call: the callback is
\* the machine's heartbeat input (withHeartbeater)
HB_sendHeartbeat(s) ==
    IF s.raised # None THEN s
    ELSE HB_createHeartbeatCall(
             PM_heartbeat([s EXCEPT !.pendingHeartbeat = CalledCall]))

\* a write-heartbeat callback that stops the clock that calls it; a tolerant
\* one handles whatever stop() raises, another lets it pass
StoppingCallback(s, tolerant) ==
    IF tolerant THEN Caught(HB_stop(s)) ELSE HB_stop(s)

\* HeartbeatClock._sendHeartbeat, run by the pending call, with a callback
\* that stops the clock
HB_sendHeartbeatStopping(s, tolerant) ==
    IF s.raised # None THEN s
    ELSE HB_createHeartbeatCall(
             StoppingCallback([s EXCEPT !.pendingHeartbeat = CalledCall],
                              tolerant))

(* --------------------- SockJSProtocol, second part -------------------- *)
\* SockJSProtocol.write
SP_write(s, data) ==
    IF s.raised # None THEN s
    ELSE IF s.sockJSMachine = None THEN Raise(s, "AttributeError")
    ELSE PM_write(s, data)

\* SockJSProtocol.loseConnection
SP_loseConnection(s) ==
    IF s.raised # None THEN s
    ELSE IF s.sockJSMachine = None THEN Raise(s, "AttributeError")
    ELSE PM_disconnect(s, GO_AWAY)

(* ------------------------------ actions ------------------------------- *)
\* the house with no session yet, its factory building sessions of class
\* cls around protocols of class wrapped
Build(cls, wrapped) ==
    /\ sessionClass = cls
    /\ bytesWritten = 0
    /\ sessionsMade = 0
    /\ returned = None
    /\ state = neverConnected
    /\ buffer = <<>>
    /\ closeReason = NoReason
    /\ request = NoRequest
    /\ finishedNotifier = None
    /\ disconnecting = FALSE
    /\ sessionMachine = TRUE
    /\ termination = <<>>
    /\ expired = FALSE
    /\ timeoutCall = NoCall
    /\ written = [r \in Requests |-> <<>>]
    /\ finished = [r \in Requests |-> 0]
    /\ connectionMadeCalls = 0
    /\ connectionsLost = <<>>
    /\ sessions = FALSE
    /\ logged = <<>>
    /\ nextRequest = 0
    /\ outputs = 0
    /\ detachedWrites = <<>>
    /\ wrappedProtocol = wrapped
    /\ sockJSMachine = notYetConnected
    /\ transport = None
    /\ pendingHeartbeat = NoCall
    /\ stopped = FALSE
    /\ stream = <<>>
    /\ now = 0
    /\ trace = <<"__init__", "">>
    /\ raised = None

\* a factory of plain RequestSessionProtocolWrappers
Construct(wrapped) == Build("RequestSessionProtocolWrapper", wrapped)

\* a session whose wrapped protocol records what it is told
Init == Construct("TestProtocol")

\* the session object exists: the house built it and attached its first request
Built == state # neverConnected

\* the message the k-th output input carries, each one different
MsgNames == <<"a", "b", "c", "d", "e", "f", "g", "h">>
Msg(k) == MsgNames[k]

\* the machine is in a state without an attached request that buffers writes
Detached ==
    state \in {connectedNoTransportEmptyBuffer, connectedNoTransportPending}

\* bodies a POST may carry: empty, not JSON, JSON
Payloads == {"", "!!!", "[\"x\"]"}

\* a request arrives for the sessionID, the limit-th at most:
\* SessionHouse.attachToSession
Arrive(limit) ==
    /\ nextRequest < limit
    /\ sessions \/ ~Built
    /\ Commit(SH_attachToSession(Cur("attach", ToString(nextRequest + 1)),
                                 ValidPath, nextRequest + 1))
    /\ nextRequest' = nextRequest + 1
    /\ UNCHANGED <<outputs, detachedWrites>>

Attach == Arrive(MaxRequests)

\* a request arrives on a session that writes no data
AttachNoData == Arrive(MaxRequests + 1)

\* the request that is attached is offered again
Reattach ==
    /\ sessions
    /\ request # NoRequest
    /\ Commit(SH_attachToSession(Cur("reattach", ToString(request)), ValidPath,
                                 request))
    /\ UNCHANGED <<nextRequest, outputs, detachedWrites>>

\* RequestSessionProtocolWrapper.detachFromRequest
Detach ==
    /\ Built
    /\ Commit(W_detachFromRequest(Cur("detach", "")))
    /\ UNCHANGED <<nextRequest, outputs, detachedWrites>>

\* the application writes an empty list or a list of one new message:
\* RequestSessionProtocolWrapper.writeData
Write ==
    /\ Built
    /\ outputs < MaxOutputs
    /\ \E data \in {<<>>, <<Msg(outputs + 1)>>} :
          /\ Commit(Session_writeData(Cur("write", sockJSJSON(data)), data))
          /\ detachedWrites' = IF Detached THEN Append(detachedWrites, data)
                                ELSE detachedWrites
    /\ outputs' = outputs + 1
    /\ UNCHANGED nextRequest

\* a POST for the sessionID: SessionHouse.writeToSession
Receive ==
    /\ Built
    /\ \E data \in Payloads :
          Commit(SH_writeToSession(Cur("receive", ""), ValidPath, data))
    /\ UNCHANGED <<nextRequest, outputs, detachedWrites>>

\* RequestSessionProtocolWrapper.writeHeartbeat
Heartbeat ==
    /\ Built
    /\ outputs < MaxOutputs
    /\ Commit(W_writeHeartbeat(Cur("heartbeat", "")))
    /\ outputs' = outputs + 1
    /\ UNCHANGED <<nextRequest, detachedWrites>>

\* RequestSessionProtocolWrapper.writeClose
WriteClose ==
    /\ Built
    /\ \E reason \in DISCONNECT :
          Commit(W_writeClose(Cur("writeClose", closeFrame(reason)), reason))
    /\ UNCHANGED <<nextRequest, outputs, detachedWrites>>

\* RequestSessionProtocolWrapper.loseConnection
LoseConnection ==
    /\ Built
    /\ Commit(W_loseConnection(Cur("loseConnection", "")))
    /\ UNCHANGED <<nextRequest, outputs, detachedWrites>>

\* the peer goes away: the request's finished-notifier fails
NotifierFails ==
    /\ finishedNotifier = "pending"
    /\ \E reason \in {ConnectionDone, ConnectionLost} :
          Commit(N_errback(Cur("notifierFails", reason), reason))
    /\ UNCHANGED <<nextRequest, outputs, detachedWrites>>

\* the pending timeout call comes due: TimeoutClock._expire
Expire ==
    /\ timeoutCall = 0
    /\ Commit(TC_expire(Cur("expire", "")))
    /\ UNCHANGED <<nextRequest, outputs, detachedWrites>>

\* one unit of time passes, no further than the moment the pending call is due
Tick ==
    /\ timeoutCall > 0 \/ pendingHeartbeat > 0
    /\ timeoutCall # 0
    /\ pendingHeartbeat # 0
    /\ timeoutCall' = IF timeoutCall > 0 THEN timeoutCall - 1 ELSE timeoutCall
    /\ pendingHeartbeat' = IF pendingHeartbeat > 0 THEN pendingHeartbeat - 1
                           ELSE pendingHeartbeat
    /\ trace' = <<"tick", "">>
    /\ raised' = None
    /\ returned' = None
    /\ UNCHANGED <<state, buffer, closeReason, request, finishedNotifier,
                   disconnecting, sessionMachine, termination, expired,
                   written, finished, connectionMadeCalls, connectionsLost,
                   sessions, logged, nextRequest, outputs, detachedWrites,
                   wrappedProtocol, sockJSMachine, transport, stopped,
                   stream, now, sessionClass, bytesWritten, sessionsMade>>

Next ==
    \/ Attach
    \/ Reattach
    \/ Detach
    \/ Write
    \/ Receive
    \/ Heartbeat
    \/ WriteClose
    \/ LoseConnection
    \/ NotifierFails
    \/ Expire
    \/ Tick

Spec == Init /\ [][Next]_vars

\* the reactor runs a pending call when it is due: time passes up to the
\* moment the call is due, and a call that is due does not stay due for ever.
\* Expire is enabled exactly when timeoutCall = 0 and leaves timeoutCall =
\* NoCall, so the last conjunct is WF_vars(Expire)
FairSpec == Spec /\ WF_vars(Tick) /\ []<>(timeoutCall # 0)

\* a session whose application writes no data and sends no heartbeat: close
\* frames are all its requests are ever written
NextNoData ==
    \/ AttachNoData
    \/ Reattach
    \/ Detach
    \/ Receive
    \/ WriteClose
    \/ LoseConnection
    \/ NotifierFails
    \/ Expire
    \/ Tick

NoDataSpec == Init /\ [][NextNoData]_vars

\* a caller that still holds the session's TimeoutClock calls start() on it
\* after it expired
StartExpired ==
    /\ expired
    /\ Commit(TC_start(Cur("timeoutClock.start", "")))
    /\ UNCHANGED <<nextRequest, outputs, detachedWrites>>

\* ... calls reset() on it after it expired
ResetExpired ==
    /\ expired
    /\ Commit(TC_reset(Cur("timeoutClock.reset", "")))
    /\ UNCHANGED <<nextRequest, outputs, detachedWrites>>

\* ... calls stop() on it after it expired
StopExpired ==
    /\ expired
    /\ Commit(TC_stop(Cur("timeoutClock.stop", "")))
    /\ UNCHANGED <<nextRequest, outputs, detachedWrites>>

\* the session, and its TimeoutClock called directly once it has expired
NextExpiredClock ==
    \/ Next
    \/ StartExpired
    \/ ResetExpired
    \/ StopExpired

ExpiredClockSpec == Init /\ [][NextExpiredClock]_vars

\* the transport tells the adapter that the connection is lost:
\* RequestSessionProtocolWrapper.connectionLost called from outside
ConnectionLostCalled ==
    /\ Built
    /\ sessionMachine
    /\ \E reason \in {ConnectionDone, ConnectionLost} :
          Commit(W_connectionLost(Cur("connectionLost", reason), reason))
    /\ UNCHANGED <<nextRequest, outputs, detachedWrites>>

\* a session whose application only writes data and closes, and whose
\* transport reports the lost connection
NextLost ==
    \/ Attach
    \/ Reattach
    \/ Detach
    \/ Write
    \/ LoseConnection
    \/ NotifierFails
    \/ Expire
    \/ Tick
    \/ ConnectionLostCalled

LostSpec == Init /\ [][NextLost]_vars

\* connectionLost is called on an adapter that has dropped its machine
ConnectionLostAgain ==
    /\ Built
    /\ ~sessionMachine
    /\ Len(termination) < MaxTerminations
    /\ \E reason \in {ConnectionDone, ConnectionLost} :
          Commit(W_connectionLost(Cur("connectionLost", reason), reason))
    /\ UNCHANGED <<nextRequest, outputs, detachedWrites>>

\* the same session, told of the lost connection at any time, once the
\* machine is gone as well
NextLostAgain ==
    \/ NextLost
    \/ ConnectionLostAgain

LostAgainSpec == Init /\ [][NextLostAgain]_vars

(* ------ the house, reached by requests with any kind of postpath ------- *)
\* postpaths that name the session, under either server ID
ValidPaths == {ValidPath, <<<<"t">>, SessionID, <<"x">>>>}

\* postpaths without the three non-empty dot-free segments: too few, too
\* many, an empty one, one with a dot in each position
InvalidPaths ==
    {<<>>,
     <<<<"s", "v">>, SessionID>>,
     <<<<"s", "v">>, SessionID, <<"x">>, <<"y">>>>,
     <<<<>>, SessionID, <<"x">>>>,
     <<<<"s", "v">>, <<>>, <<"x">>>>,
     <<<<"s", "v">>, SessionID, <<>>>>,
     <<<<"s", ".", "v">>, SessionID, <<"x">>>>,
     <<<<"s", "v">>, <<"i", ".", "d">>, <<"x">>>>,
     <<<<"s", "v">>, SessionID, <<"x", ".">>>>}

Postpaths == ValidPaths \cup InvalidPaths

\* a request with the postpath arrives: SessionHouse.attachToSession
HouseAttachWith(postpath) ==
    /\ nextRequest < MaxRequests + 1
    /\ Commit(SH_attachToSession(Cur("attach", ToString(nextRequest + 1)),
                                 postpath, nextRequest + 1))
    /\ nextRequest' = nextRequest + 1
    /\ UNCHANGED <<outputs, detachedWrites>>

HouseAttach == \E postpath \in Postpaths : HouseAttachWith(postpath)

\* a house whose sessions are detached, closed, lost and timed out
NextHouse ==
    \/ HouseAttach
    \/ Detach
    \/ LoseConnection
    \/ NotifierFails
    \/ Expire
    \/ Tick

HouseSpec == Init /\ [][NextHouse]_vars

(* ---- a SockJSProtocolMachine and its HeartbeatClock on a wire transport ---- *)
\* the last moment the model's clock reaches where it keeps the time
MaxTime == 2 * HeartbeatPeriod

\* SockJSProtocolMachine.connect, given a SockJSWireProtocolWrapper
Connect ==
    /\ Commit(PM_connect(Cur("connect", ""), "wire"))
    /\ UNCHANGED <<nextRequest, outputs, detachedWrites>>

\* SockJSProtocolMachine.write
MachineWrite ==
    /\ outputs < MaxOutputs
    /\ \E data \in {<<Msg(outputs + 1)>>} :
          Commit(PM_write(Cur("write", sockJSJSON(data)), data))
    /\ outputs' = outputs + 1
    /\ UNCHANGED <<nextRequest, detachedWrites>>

\* SockJSProtocolMachine.receive
MachineReceive ==
    /\ Commit(PM_receive(Cur("receive", "")))
    /\ UNCHANGED <<nextRequest, outputs, detachedWrites>>

\* SockJSProtocolMachine.disconnect
Disconnect ==
    /\ \E reason \in DISCONNECT :
          Commit(PM_disconnect(Cur("disconnect", closeFrame(reason)), reason))
    /\ UNCHANGED <<nextRequest, outputs, detachedWrites>>

\* SockJSProtocolMachine.close
Close ==
    /\ Commit(PM_close(Cur("close", "")))
    /\ UNCHANGED <<nextRequest, outputs, detachedWrites>>

\* the pending heartbeat call comes due: HeartbeatClock._sendHeartbeat
HeartbeatDue ==
    /\ pendingHeartbeat = 0
    /\ outputs < MaxOutputs
    /\ Commit(HB_sendHeartbeat(Cur("sendHeartbeat", "")))
    /\ outputs' = outputs + 1
    /\ UNCHANGED <<nextRequest, detachedWrites>>

\* a caller that still holds the HeartbeatClock calls schedule() on it
\* after it was stopped
ScheduleStopped ==
    /\ stopped
    /\ Commit(HB_schedule(Cur("heartbeater.schedule", "")))
    /\ UNCHANGED <<nextRequest, outputs, detachedWrites>>

\* ... calls stop() on it after it was stopped
StopStopped ==
    /\ stopped
    /\ Commit(HB_stop(Cur("heartbeater.stop", "")))
    /\ UNCHANGED <<nextRequest, outputs, detachedWrites>>

\* the clock is advanced by one unit, no further than the moment a pending
\* call is due
Advance ==
    /\ now < MaxTime
    /\ timeoutCall # 0
    /\ pendingHeartbeat # 0
    /\ now' = now + 1
    /\ timeoutCall' = IF timeoutCall > 0 THEN timeoutCall - 1 ELSE timeoutCall
    /\ pendingHeartbeat' = IF pendingHeartbeat > 0 THEN pendingHeartbeat - 1
                           ELSE pendingHeartbeat
    /\ trace' = <<"advance", "">>
    /\ raised' = None
    /\ returned' = None
    /\ UNCHANGED <<state, buffer, closeReason, request, finishedNotifier,
                   disconnecting, sessionMachine, termination, expired,
                   written, finished, connectionMadeCalls, connectionsLost,
                   sessions, logged, nextRequest, outputs, detachedWrites,
                   wrappedProtocol, sockJSMachine, transport, stopped,
                   stream, sessionClass, bytesWritten, sessionsMade>>

NextMachine ==
    \/ Connect
    \/ MachineWrite
    \/ MachineReceive
    \/ Disconnect
    \/ Close
    \/ HeartbeatDue
    \/ ScheduleStopped
    \/ StopStopped
    \/ Advance

MachineSpec == Init /\ [][NextMachine]_vars

(* ---- a HeartbeatClock called by anyone, its callback stopping it ------ *)
\* HeartbeatClock.schedule, called at any time
ScheduleCalled ==
    /\ Commit(HB_schedule(Cur("heartbeater.schedule", "")))
    /\ UNCHANGED <<nextRequest, outputs, detachedWrites>>

\* HeartbeatClock.stop, called at any time
StopCalled ==
    /\ Commit(HB_stop(Cur("heartbeater.stop", "")))
    /\ UNCHANGED <<nextRequest, outputs, detachedWrites>>

\* the pending heartbeat call comes due and the callback, instead of writing
\* a heartbeat, stops the clock
HeartbeatDueStopping ==
    /\ pendingHeartbeat = 0
    /\ \E tolerant \in BOOLEAN :
          Commit(HB_sendHeartbeatStopping(
                     Cur("sendHeartbeat",
                         IF tolerant THEN "stop, caught" ELSE "stop"),
                     tolerant))
    /\ UNCHANGED <<nextRequest, outputs, detachedWrites>>

NextClock ==
    \/ Connect
    \/ MachineWrite
    \/ ScheduleCalled
    \/ StopCalled
    \/ HeartbeatDue
    \/ HeartbeatDueStopping
    \/ Advance

ClockSpec == Init /\ [][NextClock]_vars

(* ------- a session whose wrapped protocol is a SockJSProtocol ---------- *)
StackInit == Construct("SockJSProtocol")

\* the application writes an empty list or a list of one new message:
\* SockJSProtocol.write
AppWrite ==
    /\ Built
    /\ outputs < MaxOutputs
    /\ \E data \in {<<>>, <<Msg(outputs + 1)>>} :
          /\ Commit(SP_write(Cur("write", sockJSJSON(data)), data))
          /\ detachedWrites' = IF Detached THEN Append(detachedWrites, data)
                                ELSE detachedWrites
    /\ outputs' = outputs + 1
    /\ UNCHANGED nextRequest

\* the application closes the connection: SockJSProtocol.loseConnection
AppLoseConnection ==
    /\ Built
    /\ Commit(SP_loseConnection(Cur("loseConnection", "")))
    /\ UNCHANGED <<nextRequest, outputs, detachedWrites>>

NextStack ==
    \/ Attach
    \/ Reattach
    \/ Detach
    \/ Receive
    \/ AppWrite
    \/ AppLoseConnection
    \/ HeartbeatDue
    \/ NotifierFails
    \/ Expire
    \/ Tick

StackSpec == StackInit /\ [][NextStack]_vars

(* ------------- the XHR sessions around a SockJSProtocol --------------- *)
\* an XHRSessionFactory's house
XHRInit == Build("XHRSession", "SockJSProtocol")

\* a polling client's next request arrives
PollingAttach == Arrive(MaxRequests + 1)

\* requests arrive, the application writes, heartbeats come due and time
\* passes
NextXHR ==
    \/ PollingAttach
    \/ AppWrite
    \/ HeartbeatDue
    \/ Expire
    \/ Tick

XHRSpec == XHRInit /\ [][NextXHR]_vars

\* an XHRStreamingSessionFactory's house
StreamingInit == Build("XHRStreamingSession", "SockJSProtocol")

NextStreaming ==
    \/ PollingAttach
    \/ Detach
    \/ AppWrite
    \/ HeartbeatDue
    \/ Expire
    \/ Tick

StreamingSpec == StreamingInit /\ [][NextStreaming]_vars

\* the session classes a house can be given a factory of
SessionClasses ==
    {"RequestSessionProtocolWrapper", "XHRSession", "XHRStreamingSession"}

\* a house with a factory of any of the three session classes
AnyClassInit == \E cls \in SessionClasses : Build(cls, "SockJSProtocol")

\* requests arrive, are detached and fail; the application writes and
\* closes; heartbeats come due, the timeout expires and time passes
NextAnyClass ==
    \/ PollingAttach
    \/ Detach
    \/ AppWrite
    \/ AppLoseConnection
    \/ HeartbeatDue
    \/ NotifierFails
    \/ Expire
    \/ Tick

AnyClassSpec == AnyClassInit /\ [][NextAnyClass]_vars

(* ------------------------------ properties ---------------------------- *)
\* p is a prefix of q
IsPrefix(p, q) == Len(p) <= Len(q) /\ SubSeq(q, 1, Len(p)) = p

\* the lists of a sequence of lists, joined
RECURSIVE Flatten(_)
Flatten(lists) ==
    IF lists = <<>> THEN <<>> ELSE Head(lists) \o Flatten(Tail(lists))

\* how many times the adapter method `name` ran in the step that led here
Runs(name) == Cardinality({i \in 3..Len(trace) : trace[i] = name})

\* the step is a write input
WriteIssued == outputs' = outputs + 1 /\ trace'[1] = "write"

\* the data of the most recent write made while no request was attached
LastDetachedWrite == detachedWrites[Len(detachedWrites)]

\* the step is the arrival of a new request
NewRequestArrives == nextRequest' = nextRequest + 1

\* C1: at most one request is attached at any time: a new request that
\* arrives while the machine is in connectedHaveTransport is written the
\* close frame STILL_OPEN and a newline, and finished; the machine stays in
\* connectedHaveTransport and the incumbent stays the current request,
\* unfinished and with nothing more written to it.
C1_DuplicateAttachClosesNewcomer ==
    [][(state = connectedHaveTransport /\ NewRequestArrives)
          => /\ written'[nextRequest'] =
                   <<"c[2010,\"Another connection still open\"]\n">>
             /\ finished'[nextRequest'] = 1
             /\ state' = connectedHaveTransport
             /\ request \in Requests
             /\ request' = request
             /\ request' # nextRequest'
             /\ finished'[request'] = 0
             /\ written'[request'] = written[request]]_vars

\* a second request arrived while the first was attached and was closed
C1_Witness ==
    /\ trace = <<"attach", "2", "closeOtherRequest">>
    /\ state = connectedHaveTransport
    /\ request = 1
    /\ finished[1] = 0
    /\ finished[2] = 1


\* C2: a write made while no request is attached (connectedNoTransport*)
\* appends its data to the buffer, in the order the writes are made; the
\* attach that follows writes the whole buffer to the new request as one
\* data frame, through exactly one writeData call, and leaves the buffer
\* empty; what a request has been written is never reordered, so every later
\* write comes after that frame.
C2_BufferedWritesFlushedOnce ==
    [][/\ (Detached /\ WriteIssued)
            => /\ Len(detachedWrites') = Len(detachedWrites) + 1
               /\ buffer' = buffer \o LastDetachedWrite'
               /\ state' = connectedNoTransportPending
               /\ written' = written
       /\ (state = connectedNoTransportPending /\ NewRequestArrives)
            => /\ written'[nextRequest'] =
                     <<"a" \o sockJSJSON(buffer) \o "\n">>
               /\ Runs("writeData")' = 1
               /\ buffer' = <<>>
               /\ request' = nextRequest'
               /\ state' = connectedHaveTransport
       /\ \A r \in Requests : IsPrefix(written[r], written'[r])]_vars

\* a message was buffered, flushed to the second request, and a later write
\* followed it on the same request
C2_Witness ==
    /\ detachedWrites = <<<<"a">>>>
    /\ written[2] = <<"a[\"a\"]\n", "a[\"b\"]\n">>
    /\ buffer = <<>>

\* scenario S2 has just run: attach(r1); detach; write(["a"]); write(["b"]);
\* attach(r2)
S2Reached ==
    /\ trace[1] = "attach"
    /\ trace[2] = "2"
    /\ request = 2
    /\ detachedWrites = <<<<"a">>, <<"b">>>>
    /\ written[1] = <<>>
    /\ finished[1] = 1
    /\ closeReason = NoReason

\* C3: after scenario S2, request r2 has received exactly one data frame,
\* whose payload is the array of the messages written, the two lists joined
\* into one (a["a","b"]), and the buffer is empty.
C3_S2FlushesJoinedLists ==
    S2Reached => written[2] = <<"a[\"a\",\"b\"]\n">> /\ buffer = <<>>

\* C3 as stated: each written list is kept as an element of its own
C3_S2FlushesNestedLists ==
    S2Reached => written[2] = <<"a[[\"a\"],[\"b\"]]\n">> /\ buffer = <<>>

\* scenario S2 has run and r2 is the current request
C3_Witness == S2Reached /\ state = connectedHaveTransport /\ Len(written[2]) = 1

\* the messages the application ever writes
UsedMsgs == {Msg(k) : k \in 1..MaxOutputs}

\* the lists of messages a data frame can carry
MsgLists == UNION {[1..n -> UsedMsgs] : n \in 1..MaxOutputs}

\* the data frames, as a request is written them, that carry the message m
FramesCarrying(m) ==
    {dataFrame(l) \o "\n" :
        l \in {x \in MsgLists : \E i \in 1..Len(x) : x[i] = m}}

\* the message m is in the buffer
InBuffer(m) == \E i \in 1..Len(buffer) : buffer[i] = m

\* some request has been written a data frame that carries the message m
Emitted(m) ==
    \E r \in Requests :
        \E i \in 1..Len(written[r]) : written[r][i] \in FramesCarrying(m)

\* every message written while no request was attached is in the buffer or
\* has been emitted in a data frame
DetachedWritesKept ==
    LET msgs == Flatten(detachedWrites)
    IN  \A i \in 1..Len(msgs) : InBuffer(msgs[i]) \/ Emitted(msgs[i])

\* C4: until the session timeout fires or loseConnection is called, no
\* buffered data is lost: every message written while no request was attached
\* is still in the buffer or has been emitted in a data frame.
C4_NoLossBeforeTimeoutOrLoseConnection ==
    (~expired /\ ~disconnecting) => DetachedWritesKept

\* C4 as stated: nothing is lost at any point before the timeout fires
C4_NoLossBeforeTimeout == ~expired => DetachedWritesKept

\* two messages wait in the buffer and the timeout is about to fire
C4_Witness ==
    /\ buffer = <<"a", "b">>
    /\ state = connectedNoTransportPending
    /\ timeoutCall = 0
    /\ ~expired
    /\ ~disconnecting

\* C5 as stated: in no reachable state is a request attached while a timeout
\* call is pending.
C5_TimeoutIdleWhileAttached == request # NoRequest => timeoutCall = NoCall

\* a request was attached from connectedNoTransportPending, and the timeout
\* started at the detach before it is still pending
C5_Witness ==
    /\ trace = <<"attach", "2", "openRequest", "flushBuffer", "writeData",
                 "completeWrite">>
    /\ request = 2
    /\ state = connectedHaveTransport
    /\ timeoutCall # NoCall

\* C6: the termination Deferred is fired at most once: of every callback and
\* errback call ever made on it, by connectionLost or by the TimeoutClock,
\* there is at most one.
C6_TerminationFiresAtMostOnce == Len(termination) <= 1

\* the timeout fired, which ended the session
C6_Witness ==
    /\ termination = <<<<"callback", EXPIRED>>>>
    /\ expired
    /\ disconnecting
    /\ state = disconnected
    /\ connectionsLost # <<>>

\* the session is alive and no request is attached to it
AliveUnattached == Built /\ request = NoRequest /\ state # disconnected

\* the timeout expired and ended the session
TimedOutAndGone ==
    /\ expired
    /\ termination = <<<<"callback", EXPIRED>>>>
    /\ state = disconnected
    /\ connectionsLost # <<>>

\* C7: with the timer firing when it is due, a session that has been
\* attached and has no attached request either gets a request attached or
\* times out: the timeout expires, the termination Deferred fires, the machine
\* reaches disconnected and the wrapped protocol's connectionLost is called.
C7_UnattachedSessionTimesOut ==
    AliveUnattached ~> (request # NoRequest \/ TimedOutAndGone)

\* the only request was detached and the timeout ended the session
C7_Witness ==
    /\ TimedOutAndGone
    /\ trace[1] = "expire"
    /\ nextRequest = 1
    /\ finished[1] = 1
    /\ ~sessions

\* the step is the expiry of the timeout
TimeoutExpires == ~expired /\ expired'

\* C8: when the timeout expires the wrapped protocol's connectionLost is
\* called once, with SessionTimeout if the machine was in
\* connectedNoTransportPending or loseConnectionPending and with
\* ConnectionDone otherwise (scenario S6, which expires in
\* connectedNoTransportEmptyBuffer, gets ConnectionDone), and the house no
\* longer holds the session.
C8_TimeoutReasonFollowsState ==
    [][TimeoutExpires
          => /\ connectionsLost' =
                   <<IF state \in {connectedNoTransportPending,
                                   loseConnectionPending}
                     THEN SessionTimeout ELSE ConnectionDone>>
             /\ connectionsLost = <<>>
             /\ state' = disconnected
             /\ ~sessions']_vars

\* C8 as stated: whenever the timeout expires the reason is SessionTimeout
C8_TimeoutReasonIsSessionTimeout ==
    [][TimeoutExpires
          => /\ connectionsLost' = <<SessionTimeout>>
             /\ ~sessions']_vars

\* scenario S6 has run: attach; detach; the timeout expired with nothing else
\* done
C8_Witness ==
    /\ trace = <<"expire", "", "completeConnectionLost">>
    /\ connectionsLost = <<ConnectionDone>>
    /\ nextRequest = 1
    /\ outputs = 0
    /\ closeReason = NoReason
    /\ written[1] = <<>>
    /\ ~sessions

\* the step is a heartbeat input
HeartbeatIssued == outputs' = outputs + 1 /\ trace'[1] = "heartbeat"

\* the heartbeat frames written to the request r so far
HeartbeatFrames(r) ==
    Cardinality({i \in 1..Len(written[r]) : written[r][i] = "h\n"})

\* C9: a heartbeat input writes a heartbeat frame to the request if and only
\* if the machine is in connectedHaveTransport; in connectedNoTransport* it
\* is accepted and writes nothing, changes neither state nor buffer, and no
\* later step, an attach included, writes a heartbeat frame because of it.
C9_HeartbeatOnlyWhenAttached ==
    [][/\ (HeartbeatIssued /\ state = connectedHaveTransport)
            => /\ request \in Requests
               /\ written' =
                     [written EXCEPT ![request] = Append(@, "h\n")]
               /\ raised' = None
       /\ (HeartbeatIssued /\ Detached)
            => /\ raised' = None
               /\ written' = written
       /\ HeartbeatIssued => state' = state /\ buffer' = buffer
       /\ ~(HeartbeatIssued /\ state = connectedHaveTransport)
            => \A r \in Requests : HeartbeatFrames(r)' = HeartbeatFrames(r)]_vars

\* a heartbeat was suppressed while no request was attached, the second
\* request was attached and written nothing, and the next heartbeat reached it
C9_Witness ==
    /\ trace = <<"heartbeat", "", "completeHeartbeat">>
    /\ outputs = 2
    /\ detachedWrites = <<>>
    /\ request = 2
    /\ written[1] = <<>>
    /\ finished[1] = 1
    /\ written[2] = <<"h\n">>

\* the close frames, as a request is written them
CloseFrameLines == {closeFrame(reason) \o "\n" : reason \in DISCONNECT}

\* the close frames written to the request r so far
CloseFrames(r) ==
    Cardinality({i \in 1..Len(written[r]) : written[r][i] \in CloseFrameLines})

\* C10: a request is written at most one close frame, but a session may
\* write several: a request that arrives in loseConnectionEmptyBuffer or
\* loseConnectionPending is written one close frame carrying the reason most
\* recently stored by writeClose (nothing if none was stored) and is
\* finished, and a request that arrives while another is attached is written
\* STILL_OPEN.
C10_CloseFramePerLateRequest ==
    [][/\ IF trace'[1] = "writeClose" /\ raised' = None
          THEN trace'[2] = closeFrame(closeReason')
          ELSE closeReason' = closeReason
       /\ (NewRequestArrives
               /\ state \in {loseConnectionEmptyBuffer, loseConnectionPending})
            => /\ written'[nextRequest'] =
                     IF closeReason = NoReason THEN <<>>
                     ELSE <<closeFrame(closeReason) \o "\n">>
               /\ finished'[nextRequest'] =
                     IF closeReason = NoReason THEN 0 ELSE 1
               /\ state' = state
       /\ (NewRequestArrives /\ state = connectedHaveTransport)
            => written'[nextRequest'] = <<closeFrame(STILL_OPEN) \o "\n">>
       /\ \A r \in Requests : CloseFrames(r)' <= 1]_vars

\* C10 as stated: a session writes at most one close frame in its life
C10_OneCloseFramePerSession ==
    \A r1, r2 \in Requests :
        CloseFrames(r1) > 0 /\ CloseFrames(r2) > 0 => r1 = r2

\* writeClose stored GO_AWAY, and after loseConnection the two requests that
\* arrived were each written a close frame that carries it
C10_Witness ==
    /\ closeReason = GO_AWAY
    /\ state = loseConnectionEmptyBuffer
    /\ written[1] = <<>>
    /\ written[2] = <<"c[3000,\"Go away!\"]\n">>
    /\ written[3] = <<"c[3000,\"Go away!\"]\n">>
    /\ finished[2] = 1
    /\ finished[3] = 1

\* the last step attached the second request, after the first was finished
\* and GO_AWAY stored, and the application has written nothing
SecondRequestArrivedAfterGoAway ==
    /\ trace[1] = "attach"
    /\ trace[2] = "2"
    /\ closeReason = GO_AWAY
    /\ outputs = 0
    /\ written[1] = <<>>
    /\ finished[1] = 1
    /\ ~expired

\* scenario S4 has just run: attach(r1); detach; writeClose(GO_AWAY);
\* attach(r2), and loseConnection was never called
S4Reached == SecondRequestArrivedAfterGoAway /\ ~disconnecting

\* scenario S4 with loseConnection called before attach(r2)
S4LostReached == SecondRequestArrivedAfterGoAway /\ disconnecting

\* C11: after scenario S4, where loseConnection is not called, r2 is the
\* current request and has been written nothing, no close frame and no data
\* frame; r2 is written c[3000,"Go away!"] and a newline, and finished, when
\* loseConnection is called before it attaches.
C11_S4CloseFrameNeedsLoseConnection ==
    /\ S4Reached
         => /\ written[2] = <<>>
            /\ finished[2] = 0
            /\ request = 2
            /\ state = connectedHaveTransport
    /\ S4LostReached
         => /\ written[2] = <<"c[3000,\"Go away!\"]\n">>
            /\ finished[2] = 1
            /\ request = NoRequest

\* C11 as stated: after scenario S4, r2 has been written the close frame
C11_S4WritesCloseFrame ==
    S4Reached => written[2] = <<"c[3000,\"Go away!\"]\n">>

\* scenario S4 has run and r2 is attached
C11_Witness == S4Reached /\ request = 2 /\ nextRequest = 2

\* the step is a loseConnection call that the adapter acts on
LoseConnectionIssued ==
    ~disconnecting /\ disconnecting' /\ trace'[1] = "loseConnection"

\* C12 as stated: when loseConnection is called in connectedHaveTransport
\* after writeClose stored a reason, the attached request is written the
\* close frame before it is finished.
C12_LoseConnectionWritesStoredFrame ==
    [][(LoseConnectionIssued /\ state = connectedHaveTransport
           /\ closeReason # NoReason /\ request \in Requests)
          => /\ written'[request] =
                   Append(written[request], closeFrame(closeReason) \o "\n")
             /\ finished'[request] = 1]_vars

\* attach(r1); writeClose(GO_AWAY); loseConnection: r1 is finished and has
\* been written nothing
C12_Witness ==
    /\ trace = <<"loseConnection", "", "finishCurrentRequest",
                 "completeLoseConnection">>
    /\ closeReason = GO_AWAY
    /\ nextRequest = 1
    /\ written[1] = <<>>
    /\ finished[1] = 1
    /\ state = loseConnectionEmptyBuffer

\* C13: loseConnection called in connectedHaveTransport or
\* connectedNoTransport* calls the adapter's completeLoseConnection exactly
\* once and enters loseConnectionEmptyBuffer or loseConnectionPending with no
\* request attached and the stored reason kept; every request that arrives
\* there after writeClose stored a reason is written the close frame with
\* that reason and finished, does not become the current request, and leaves
\* the state as it is.
C13_LateRequestsGetStoredReason ==
    [][/\ (LoseConnectionIssued
              /\ state \in {connectedHaveTransport,
                             connectedNoTransportEmptyBuffer,
                             connectedNoTransportPending})
            => /\ Runs("completeLoseConnection")' = 1
               /\ state' = IF state = connectedNoTransportPending
                            THEN loseConnectionPending
                            ELSE loseConnectionEmptyBuffer
               /\ request' = NoRequest
               /\ closeReason' = closeReason
               /\ raised' = None
       /\ (NewRequestArrives
              /\ state \in {loseConnectionEmptyBuffer, loseConnectionPending}
              /\ closeReason # NoReason)
            => /\ written'[nextRequest'] =
                     <<closeFrame(closeReason) \o "\n">>
               /\ finished'[nextRequest'] = 1
               /\ request = NoRequest
               /\ request' = NoRequest
               /\ state' = state
               /\ closeReason' = closeReason]_vars

\* a message was buffered, GO_AWAY stored, loseConnection called, and the
\* request that arrived then was written the close frame
C13_Witness ==
    /\ state = loseConnectionPending
    /\ detachedWrites = <<<<"a">>>>
    /\ written[2] = <<"c[3000,\"Go away!\"]\n">>
    /\ finished[2] = 1
    /\ request = NoRequest
    /\ buffer = <<>>

\* C14: the wrapped protocol's connectionMade is called exactly once, by the
\* first attach (neverConnected to connectedHaveTransport), after that
\* request was made current, the connection established and the request
\* begun; no later step calls it again.
C14_ConnectionMadeOnce ==
    [][/\ connectionMadeCalls' # connectionMadeCalls
            => /\ state = neverConnected
               /\ state' = connectedHaveTransport
               /\ trace' = <<"attach", "1", "openRequest",
                             "establishConnection", "beginRequest",
                             "completeConnection">>
               /\ request' = 1
               /\ finishedNotifier' = "pending"
       /\ connectionMadeCalls' = IF state' = neverConnected THEN 0 ELSE 1]_vars

\* the second request was attached after the first was detached, and
\* connectionMade has been called once
C14_Witness ==
    /\ connectionMadeCalls = 1
    /\ trace = <<"attach", "2", "openRequest", "beginRequest">>
    /\ request = 2
    /\ finished[1] = 1

\* everything but the ghosts that record the last call
sessionVars ==
    <<state, buffer, closeReason, request, finishedNotifier, disconnecting,
      sessionMachine, termination, expired, timeoutCall, written, finished,
      connectionMadeCalls, connectionsLost, sessions, logged, nextRequest,
      outputs, detachedWrites>>

\* C17: when the TimeoutClock expires its pending call is due, and it
\* becomes expired, holds no pending call and fires the termination signal,
\* which had not fired, with EXPIRED; from then on it stays expired, no call
\* is ever pending and the signal does not fire again; start() and reset()
\* raise RuntimeError and stop() raises nothing and changes nothing.
C17_ExpiryIsTerminal ==
    [][/\ TimeoutExpires
            => /\ timeoutCall = 0
               /\ timeoutCall' = NoCall
               /\ termination' = <<<<"callback", EXPIRED>>>>
       /\ expired
            => /\ expired'
               /\ timeoutCall = NoCall
               /\ timeoutCall' = NoCall
               /\ termination' = termination
       /\ (expired /\ trace'[1] \in {"timeoutClock.start", "timeoutClock.reset"})
            => /\ raised' = "RuntimeError"
               /\ sessionVars' = sessionVars
       /\ (expired /\ trace'[1] = "timeoutClock.stop")
            => /\ raised' = None
               /\ sessionVars' = sessionVars]_vars

\* start() was called on the expired clock and raised
C17_Witness ==
    /\ expired
    /\ trace = <<"timeoutClock.start", "">>
    /\ raised = "RuntimeError"
    /\ timeoutCall = NoCall
    /\ termination = <<<<"callback", EXPIRED>>>>

\* the step is a loseConnection call on the wrapper
LoseConnectionCalled == trace'[1] = "loseConnection"

\* C20: the first loseConnection call on a session that still has its
\* machine sets disconnecting, gives the machine one loseConnection input
\* (the adapter's completeLoseConnection runs once) and starts the timeout
\* clock, which is then pending: newly armed for the full length if it was
\* idle, left as it was if it was pending; a later call, while
\* disconnecting, changes nothing, gives the machine no input and raises
\* nothing.
C20_LoseConnectionIdempotent ==
    [][/\ (LoseConnectionCalled /\ ~disconnecting /\ sessionMachine)
            => /\ disconnecting'
               /\ Runs("completeLoseConnection")' = 1
               /\ raised' = None
               /\ timeoutCall' = IF timeoutCall = NoCall
                                  THEN TimeoutLength
                                  ELSE timeoutCall
               /\ timeoutCall' # NoCall
       /\ (LoseConnectionCalled /\ disconnecting)
            => /\ sessionVars' = sessionVars
               /\ trace' = <<"loseConnection", "">>
               /\ raised' = None]_vars

\* loseConnection was called again on a session that is disconnecting and
\* has not expired
C20_Witness ==
    /\ trace = <<"loseConnection", "">>
    /\ disconnecting
    /\ ~expired
    /\ timeoutCall = TimeoutLength
    /\ state = loseConnectionEmptyBuffer

\* the SockJSProtocolMachine, its HeartbeatClock and its wire transport
machineVars ==
    <<sockJSMachine, transport, pendingHeartbeat, stopped, stream, now>>

\* the heartbeat frames the stream was given, with their times
Heartbeats == SelectSeq(stream, LAMBDA item : item[2] = "h")

\* everything else the stream was given, with its times
NonHeartbeats == SelectSeq(stream, LAMBDA item : item[2] # "h")

\* the step is a machine input that ran HeartbeatClock.schedule(): a connect
\* or a write that was accepted
ScheduleRan == trace'[1] \in {"connect", "write"} /\ raised' = None

\* the step is the pending call running HeartbeatClock._sendHeartbeat
HeartbeatFired == trace'[1] = "sendHeartbeat"

\* scenario S5 in units of the period: connected at time 0, one write at
\* HeartbeatPeriod - 1, and nothing else but heartbeats since
S5Ran ==
    /\ sockJSMachine = connected
    /\ NonHeartbeats = <<<<0, "o">>, <<HeartbeatPeriod - 1, "a[\"a\"]">>>>

\* C15: a schedule() call leaves the fire pending a full period from now,
\* whatever was left of the old deadline, and writes no heartbeat; a fire
\* happens when the pending call is due, a full period after the most recent
\* schedule() or fire, writes one heartbeat and arms the next fire a full
\* period later; with schedule() at times 0 and period - 1 there is no
\* heartbeat up to time 2 * period - 2 and exactly one, written at
\* 2 * period - 1, at time 2 * period.
C15_HeartbeatAfterFullQuietPeriod ==
    /\ [](S5Ran =>
            /\ (now <= 2 * HeartbeatPeriod - 2) => (Heartbeats = <<>>)
            /\ (now = 2 * HeartbeatPeriod)
                  => (Heartbeats = <<<<2 * HeartbeatPeriod - 1, "h">>>>))
    /\ [][/\ ScheduleRan
               => /\ pendingHeartbeat' = HeartbeatPeriod
                  /\ Heartbeats' = Heartbeats
          /\ HeartbeatFired
               => /\ pendingHeartbeat = 0
                  /\ now = stream[Len(stream)][1] + HeartbeatPeriod
                  /\ stream' = Append(stream, <<now, "h">>)
                  /\ pendingHeartbeat' = HeartbeatPeriod
                  /\ raised' = None]_vars

\* scenario S5 has run to time 2 * period, and its one heartbeat was written
C15_Witness ==
    /\ S5Ran
    /\ now = 2 * HeartbeatPeriod
    /\ Heartbeats = <<<<2 * HeartbeatPeriod - 1, "h">>>>
    /\ pendingHeartbeat = HeartbeatPeriod - 1

\* C16: the step that stops the HeartbeatClock cancels the pending fire;
\* once stopped the clock stays stopped and never has a call pending; a
\* further stop() raises nothing and changes nothing; every schedule() after
\* stop() raises RuntimeError and arms nothing.
C16_StopIsTerminal ==
    [][/\ (~stopped /\ stopped')
            => /\ pendingHeartbeat \in 0..HeartbeatPeriod
               /\ pendingHeartbeat' = NoCall
       /\ stopped
            => /\ stopped'
               /\ pendingHeartbeat = NoCall
               /\ pendingHeartbeat' = NoCall
       /\ (stopped /\ trace'[1] = "heartbeater.stop")
            => /\ raised' = None
               /\ machineVars' = machineVars
       /\ (stopped /\ trace'[1] = "heartbeater.schedule")
            => /\ raised' = "RuntimeError"
               /\ machineVars' = machineVars]_vars

\* schedule() was called on the clock after disconnect stopped it, and raised
C16_Witness ==
    /\ stopped
    /\ trace = <<"heartbeater.schedule", "">>
    /\ raised = "RuntimeError"
    /\ pendingHeartbeat = NoCall
    /\ Len(stream) >= 3

\* C18: disconnect on a connected SockJSProtocolMachine gives the transport
\* the close frame and then loseConnection, and stops the heartbeater, all
\* in that one step; once the machine is disconnected the transport is given
\* nothing more and no heartbeat call is pending, whatever runs afterwards
\* (time passing, the close notification, further inputs).
C18_NothingWrittenAfterDisconnect ==
    [][/\ (trace'[1] = "disconnect" /\ sockJSMachine = connected)
            => /\ stream' = stream \o <<<<now, trace'[2]>>,
                                         <<now, "loseConnection">>>>
               /\ trace'[2] \in {closeFrame(reason) : reason \in DISCONNECT}
               /\ stopped'
               /\ pendingHeartbeat' = NoCall
               /\ sockJSMachine' = disconnected
               /\ transport' = None
       /\ sockJSMachine = disconnected
            => /\ stream' = stream
               /\ pendingHeartbeat = NoCall
               /\ pendingHeartbeat' = NoCall
               /\ sockJSMachine' = disconnected]_vars

\* the machine was disconnected while a heartbeat was pending, the close
\* notification came, and a full period has passed since
C18_Witness ==
    /\ sockJSMachine = disconnected
    /\ Len(stream) >= 3
    /\ stream[Len(stream)][2] = "loseConnection"
    /\ stream[Len(stream)][1] > 0
    /\ now >= stream[Len(stream)][1] + HeartbeatPeriod
    /\ stopped

\* the step wrote request r a frame that is not a close frame: an open, data
\* or heartbeat frame
FrameWritten(r) ==
    /\ Len(written'[r]) > Len(written[r])
    /\ written'[r][Len(written'[r])] \notin CloseFrameLines

\* C19 as stated: after a step of the session that wrote a request an open,
\* data or heartbeat frame, the flushed buffer's frame included, the next
\* heartbeat is a full period away, unless the SockJSProtocolMachine has
\* left its connected state.
C19_EveryFrameResetsHeartbeat ==
    [][((\E r \in Requests : FrameWritten(r)) /\ sockJSMachine' = connected)
          => pendingHeartbeat' = HeartbeatPeriod]_vars

\* a message written while no request was attached has just been flushed to
\* the second request, and the next heartbeat is less than a period away
C19_Witness ==
    /\ trace[1] = "attach"
    /\ trace[2] = "2"
    /\ written[2] = <<"a[\"a\"]\n">>
    /\ sockJSMachine = connected
    /\ pendingHeartbeat \in 0..(HeartbeatPeriod - 1)

\* the step is connectionLost reaching the adapter of a session that still
\* has its machine, from the transport or from the failed finished-notifier
ConnectionLostReached ==
    /\ trace'[1] \in {"connectionLost", "notifierFails"}
    /\ sessionMachine

\* what the wrapped protocol is told when the machine gets connectionLost
\* with the reason in state st
ReasonPassedOn(st, reason) ==
    IF st \in {connectedNoTransportPending, loseConnectionPending}
       /\ reason = ConnectionDone
    THEN SessionTimeout
    ELSE reason

\* C21: when connectionLost reaches the adapter while disconnecting is set,
\* the termination signal does not fire and the timeout clock is as it was,
\* a pending call still pending; the machine gets connectionLost with the
\* reason and enters disconnected, and the adapter drops the machine.
C21_LocalCloseKeepsTimeoutRunning ==
    [][(ConnectionLostReached /\ disconnecting)
          => /\ termination' = termination
             /\ timeoutCall' = timeoutCall
             /\ expired' = expired
             /\ sessions' = sessions
             /\ state \in {loseConnectionEmptyBuffer, loseConnectionPending}
             /\ state' = disconnected
             /\ Runs("completeConnectionLost")' = 1
             /\ connectionsLost' =
                   Append(connectionsLost, ReasonPassedOn(state, trace'[2]))
             /\ ~sessionMachine'
             /\ raised' = None]_vars

\* loseConnection, then connectionLost from the transport: the machine is
\* gone, nothing terminated and the timeout is still pending
C21_Witness ==
    /\ trace[1] = "connectionLost"
    /\ disconnecting
    /\ state = disconnected
    /\ ~sessionMachine
    /\ termination = <<>>
    /\ timeoutCall \in 0..TimeoutLength
    /\ ~expired

\* the termination signal fired as a failure
TerminatedByFailure ==
    termination # <<>> /\ termination[1][1] = "errback"

\* C22: when connectionLost reaches the adapter while disconnecting is not
\* set, the termination signal, which had not fired, fires as a failure
\* with that reason, the timeout clock has no call pending, the machine gets
\* connectionLost with the reason and enters disconnected, and the adapter
\* drops the machine; a session terminated by a failure never expires and
\* never has a timeout call pending.
C22_PeerCloseTerminatesAndStopsTimeout ==
    /\ [](TerminatedByFailure => (~expired /\ timeoutCall = NoCall))
    /\ [][(ConnectionLostReached /\ ~disconnecting)
             => /\ termination = <<>>
                /\ termination' = <<<<"errback", trace'[2]>>>>
                /\ timeoutCall' = NoCall
                /\ ~expired'
                /\ ~sessions'
                /\ state' = disconnected
                /\ Runs("completeConnectionLost")' = 1
                /\ connectionsLost' =
                      Append(connectionsLost, ReasonPassedOn(state, trace'[2]))
                /\ ~sessionMachine'
                /\ raised' = None]_vars

\* connectionLost came while no request was attached and the timeout was
\* pending: the termination failed with the reason and the timeout is gone
C22_Witness ==
    /\ trace[1] = "connectionLost"
    /\ ~disconnecting
    /\ termination = <<<<"errback", ConnectionLost>>>>
    /\ timeoutCall = NoCall
    /\ finished[1] = 1
    /\ state = disconnected
    /\ ~sessionMachine

\* the step ran finishCurrentRequest
RequestFinishedCleanly == Runs("finishCurrentRequest")' > 0

\* C23: a step in which finishCurrentRequest runs finishes the attached
\* request, clears it and the notifier and leaves the timeout pending, and
\* is not a lost connection: connectionLost reaches neither the machine nor
\* the wrapped protocol, the adapter keeps its machine and the termination
\* signal does not fire; a failure of the finished-notifier that is no
\* cancellation does reach connectionLost: the termination fails with it and
\* the machine enters disconnected.
C23_CancellationIsNotConnectionLost ==
    [][/\ RequestFinishedCleanly
            => /\ request \in Requests
               /\ finished'[request] = finished[request] + 1
               /\ request' = NoRequest
               /\ finishedNotifier' = None
               /\ timeoutCall' \in 0..TimeoutLength
               /\ termination' = termination
               /\ connectionsLost' = connectionsLost
               /\ Runs("completeConnectionLost")' = 0
               /\ sessionMachine' = sessionMachine
               /\ state' # disconnected
               /\ sessions' = sessions
               /\ raised' = None
       /\ trace'[1] = "notifierFails"
            => /\ finishedNotifier = "pending"
               /\ finishedNotifier' = "called"
               /\ Runs("completeConnectionLost")' = 1
               /\ termination' = Append(termination, <<"errback", trace'[2]>>)
               /\ state' = disconnected]_vars

\* a request whose notifier was pending has been detached cleanly
C23_Witness ==
    /\ trace = <<"detach", "", "finishCurrentRequest">>
    /\ finished[1] = 1
    /\ finishedNotifier = None
    /\ termination = <<>>
    /\ connectionsLost = <<>>
    /\ state = connectedNoTransportEmptyBuffer
    /\ timeoutCall = TimeoutLength

\* the session after a POST with the payload, as writeToSession leaves it
Posted(payload) ==
    SH_writeToSession(Cur("receive", ""), ValidPath, payload)

\* the session's fields in s are what they are now
SessionLeftAlone(s) ==
    [s EXCEPT !.trace = <<>>, !.raised = None]
        = [Cur("receive", "") EXCEPT !.trace = <<>>]

\* what dataReceived raises for a payload it cannot decode
InvalidDataFor(payload) ==
    IF payload = "" THEN "InvalidData(NO_PAYLOAD)" ELSE "InvalidData(BAD_JSON)"

\* the states whose receive transition hands the payload to the decoder
DecodingStates ==
    {connectedHaveTransport, connectedNoTransportEmptyBuffer,
     connectedNoTransportPending}

\* the states whose receive transition has no output
DiscardingStates == {loseConnectionEmptyBuffer, loseConnectionPending}

\* C30 as stated: in every state that accepts inbound data, an empty
\* payload fails with InvalidData(NO_PAYLOAD) and a non-JSON payload with
\* InvalidData(BAD_JSON).
C30_EveryAcceptingStateRejectsBadPayload ==
    (sessions /\ sessionMachine
        /\ state \in DecodingStates \cup DiscardingStates)
        => \A payload \in {"", "!!!"} :
              Posted(payload).raised = InvalidDataFor(payload)

\* C30, amended: on a registered session that has its machine, in the three
\* connected states an empty payload fails with InvalidData(NO_PAYLOAD) and
\* a non-JSON payload with InvalidData(BAD_JSON), raised by the decoder
\* before the wrapped protocol is reached; in the two loseConnection states
\* the payload is discarded undecoded and nothing is raised; in all five the
\* wrapped protocol receives nothing and every field of the session (state,
\* buffer, request, timeout, termination) is as it was.
C30_BadPayloadLeavesSessionAlone ==
    (sessions /\ sessionMachine)
        => \A payload \in {"", "!!!"} :
              /\ state \in DecodingStates
                    => /\ Posted(payload).raised = InvalidDataFor(payload)
                       /\ Posted(payload).trace
                             = <<"receive", "", "completeDataReceived">>
                       /\ SessionLeftAlone(Posted(payload))
              /\ state \in DiscardingStates
                    => /\ Posted(payload).returned = "True"
                       /\ [Posted(payload) EXCEPT !.returned = None]
                             = Cur("receive", "")

\* a payload that is not JSON was posted while writes were buffered and the
\* timeout was pending
C30_Witness ==
    /\ trace = <<"receive", "", "completeDataReceived">>
    /\ raised = "InvalidData(BAD_JSON)"
    /\ state = connectedNoTransportPending
    /\ buffer # <<>>
    /\ timeoutCall \in 0..TimeoutLength
    /\ request = NoRequest

\* the failures a session ends with in the ordinary way
ExpectedFailures == {ConnectionDone, ConnectionLost, SessionTimeout}

\* C26: when the termination signal fails with ConnectionDone,
\* ConnectionLost or SessionTimeout the failure is trapped and nothing is
\* handed to the logger.
C26_ExpectedFailuresAreNotLogged ==
    (TerminatedByFailure /\ termination[1][2] \in ExpectedFailures)
        => logged = <<>>

\* the peer closed the connection cleanly, the termination failed with
\* ConnectionDone, and the logger was handed an AttributeError
C26_Witness ==
    /\ trace[1] = "notifierFails"
    /\ termination = <<<<"errback", ConnectionDone>>>>
    /\ ~sessions
    /\ logged = <<"AttributeError">>

\* the session's own fields, the requests and the house's entry
houseVars ==
    <<state, buffer, closeReason, request, finishedNotifier, disconnecting,
      sessionMachine, termination, expired, timeoutCall, written, finished,
      connectionMadeCalls, connectionsLost, sessions, logged, sessionsMade,
      bytesWritten, sockJSMachine, transport, pendingHeartbeat, stopped>>

\* the session is as the factory builds it, with the request r attached by
\* its first attach
FreshlyAttached(r) ==
    /\ state' = connectedHaveTransport
    /\ request' = r
    /\ buffer' = <<>>
    /\ closeReason' = NoReason
    /\ termination' = <<>>
    /\ ~expired'
    /\ ~disconnecting'
    /\ sessionMachine'
    /\ connectionMadeCalls' = 1
    /\ connectionsLost' = <<>>
    /\ trace' = <<"attach", ToString(r), "openRequest",
                  "establishConnection", "beginRequest",
                  "completeConnection">>

\* C24: the house's entry goes exactly in the steps in which the session's
\* termination signal fires, as a callback or as an errback; an entry is
\* made only by a valid attach that finds none, and the session it then
\* reaches is a new one, built by the factory, not the terminated one.
C24_EntryRemovedExactlyOnTermination ==
    [][/\ (sessions /\ ~sessions')
            <=> (termination = <<>> /\ termination' # <<>>)
       /\ (sessions /\ termination = <<>> /\ termination' # <<>>)
            => termination'[1][1] \in {"callback", "errback"}
       /\ (~sessions /\ sessions')
            => /\ trace'[1] = "attach"
               /\ sessionsMade' = sessionsMade + 1
               /\ FreshlyAttached(nextRequest')]_vars

\* the first session timed out and a later request for the same sessionID
\* has a second session
C24_Witness ==
    /\ sessionsMade = 2
    /\ sessions
    /\ state = connectedHaveTransport
    /\ termination = <<>>
    /\ finished[1] = 1
    /\ request = 3

\* C25: an attach whose postpath is not three non-empty segments without a
\* dot returns False and changes neither the house nor the session nor any
\* request; an attach with a valid postpath that finds no entry has the
\* factory build one session, registers it, attaches the request to it and
\* returns True; one that finds an entry builds nothing and hands the
\* request to that session; so a session is only ever built while the
\* sessionID has no entry.
C25_OneSessionPerSessionID ==
    [][/\ \A postpath \in Postpaths :
             HouseAttachWith(postpath)
                => IF postpath \in InvalidPaths
                   THEN /\ returned' = "False"
                        /\ raised' = None
                        /\ trace' = <<"attach", ToString(nextRequest')>>
                        /\ UNCHANGED houseVars
                   ELSE IF ~sessions
                   THEN /\ returned' = "True"
                        /\ sessions'
                        /\ sessionsMade' = sessionsMade + 1
                        /\ FreshlyAttached(nextRequest')
                   ELSE /\ sessionsMade' = sessionsMade
                        /\ raised' = None
                        /\ returned' = "True"
                        /\ sessions'
                        /\ Runs("establishConnection")' = 0
                        /\ connectionMadeCalls' = connectionMadeCalls
                        /\ termination' = termination
       /\ sessionsMade' # sessionsMade
             => (~sessions /\ sessions' /\ sessionsMade' = sessionsMade + 1)]_vars

\* a request with a bad postpath came while a session was attached, and a
\* good one after it was handed to that same session
C25_Witness ==
    /\ sessionsMade = 1
    /\ sessions
    /\ nextRequest = 3
    /\ written[2] = <<>>
    /\ finished[2] = 0
    /\ finished[3] = 1
    /\ request = 1
    /\ returned = "True"

\* C27: on an XHRSession no request is ever written more than one frame,
\* whatever the order of attaches, writes and heartbeats.
C27_OneFramePerRequest ==
    \A r \in Requests : Len(written[r]) <= 1

\* a heartbeat was written to the polling request and left it attached; the
\* application's next write put a data frame on the same request
C27_Witness ==
    /\ sessionClass = "XHRSession"
    /\ written[1] = <<"o\n">>
    /\ written[2] = <<"h\n", dataFrame(<<Msg(2)>>) \o "\n">>
    /\ finished[2] = 1

\* the line the prelude is written as
PreludeLine == prelude \o "\n"

\* the places in the request's lines where the prelude stands
PreludePlaces(r) == {i \in 1..Len(written[r]) : written[r][i] = PreludeLine}

\* C28: when an XHRStreamingSession's first request is attached, writeOpen
\* writes that request the prelude of 2048 'h' and a newline and then the
\* open frame and a newline, and leaves the request attached and
\* unfinished; the prelude is written once in the session's life, and
\* where it is written it is the request's first line.
C28_PreludeThenOpenFrame ==
    /\ [](/\ Len(prelude) = PreludeLength
          /\ \A r \in Requests : PreludePlaces(r) \subseteq {1}
          /\ \A r \in Requests \ {1} : PreludePlaces(r) = {})
    /\ [][connectionMadeCalls' # connectionMadeCalls
             => /\ written[nextRequest'] = <<>>
                /\ written'[nextRequest'] = <<PreludeLine, "o\n">>
                /\ request' = nextRequest'
                /\ finished'[nextRequest'] = 0
                /\ state' = connectedHaveTransport
                /\ bytesWritten' = 0]_vars

\* the streaming request got prelude and open frame, and later a data frame
C28_Witness ==
    /\ sessionClass = "XHRStreamingSession"
    /\ Len(written[1]) = 3
    /\ written[1][1] = PreludeLine
    /\ written[1][2] = "o\n"
    /\ written[1][3] = dataFrame(<<Msg(1)>>) \o "\n"
    /\ request = 1

\* the step wrote one data frame: an application write to the attached
\* request, or the flush of the buffer to a newly attached one
DataFrameWritten == Runs("completeWrite")' = 1

\* the messages in the data frame the step wrote
DataWritten ==
    IF trace'[1] = "attach" THEN buffer
    ELSE IF trace'[2] = sockJSJSON(<<>>) THEN <<>>
    ELSE <<Msg(outputs')>>

\* the count after the step's data frame, before any restart
CountReached == bytesWritten + SumLen(DataWritten)

\* the step wrote a data frame and detached the request it wrote it to
DetachedAfterWrite ==
    /\ DataFrameWritten
    /\ request' = NoRequest
    /\ Runs("finishCurrentRequest")' = 1

\* C29 as stated: a data frame's write detaches the request only when it
\* makes the count strictly exceed maximumBytes.
C29_DetachOnlyAboveLimit ==
    [][DetachedAfterWrite => CountReached > MaximumBytes]_vars

\* C29, amended: an XHRStreamingSession adds to its count the lengths of
\* the messages of every data frame it writes, and nothing for the prelude,
\* the open frame or a heartbeat; a write that leaves the count below
\* maximumBytes keeps the request attached and the count; a write that
\* makes the count reach or exceed maximumBytes detaches and finishes the
\* request in the same step and restarts the count from zero.
C29_DetachWhenLimitReached ==
    [][/\ DataFrameWritten
            => IF CountReached >= MaximumBytes
               THEN /\ bytesWritten' = 0
                    /\ DetachedAfterWrite
                    /\ state' = connectedNoTransportEmptyBuffer
                    /\ timeoutCall' \in 0..TimeoutLength
               ELSE /\ bytesWritten' = CountReached
                    /\ request' # NoRequest
                    /\ Runs("finishCurrentRequest")' = 0
                    /\ state' = connectedHaveTransport
       /\ ~DataFrameWritten => bytesWritten' = bytesWritten]_vars

\* a first message left the count at one and the request attached; the
\* second brought the count to maximumBytes and the request was detached
C29_Witness ==
    /\ sessionClass = "XHRStreamingSession"
    /\ trace[1] = "write"
    /\ Len(written[1]) = 4
    /\ written[1][3] = dataFrame(<<Msg(1)>>) \o "\n"
    /\ written[1][4] = dataFrame(<<Msg(2)>>) \o "\n"
    /\ finished[1] = 1
    /\ request = NoRequest
    /\ bytesWritten = 0

\* the states in which the buffer is said to be empty
EmptyBufferStates ==
    {neverConnected, connectedHaveTransport, connectedNoTransportEmptyBuffer,
     loseConnectionEmptyBuffer, loseConnectionPending}

\* C34 as stated: the state and the buffer agree: the buffer is empty in
\* neverConnected, connectedHaveTransport, connectedNoTransportEmptyBuffer,
\* loseConnectionEmptyBuffer and loseConnectionPending, and it is not empty in
\* connectedNoTransportPending, whatever lists have been written.
C34_StateAndBufferAgree ==
    /\ state \in EmptyBufferStates => buffer = <<>>
    /\ state = connectedNoTransportPending => buffer # <<>>

\* an empty list was written after the detach: the machine is in
\* connectedNoTransportPending and its buffer is empty
C34_Witness ==
    /\ trace = <<"write", "[]", "writeData", "bufferWrite">>
    /\ detachedWrites = <<<<>>>>
    /\ state = connectedNoTransportPending
    /\ buffer = <<>>
    /\ raised = None

\* the step is a detachFromRequest made while the machine is live and no
\* request is attached
DetachWithoutRequest ==
    /\ trace'[1] = "detach"
    /\ request = NoRequest
    /\ sessionMachine
    /\ state # disconnected

\* C32 as stated: detach on a machine that has no attached request is a safe
\* no-op in every state: it is accepted without error, it finishes no request
\* and writes to none, and it changes neither the state nor the buffer.
C32_DetachWithoutRequestIsNoOp ==
    [][DetachWithoutRequest
          => /\ raised' = None
             /\ state' = state
             /\ buffer' = buffer
             /\ request' = NoRequest
             /\ finished' = finished
             /\ written' = written]_vars

\* detach was called after loseConnection had finished the attached request:
\* loseConnectionEmptyBuffer has no detach transition
C32_Witness ==
    /\ trace = <<"detach", "">>
    /\ state = loseConnectionEmptyBuffer
    /\ request = NoRequest
    /\ raised = "NoTransition"

\* in the step every request is written nothing, or one close frame that
\* carries the stored reason
OnlyCloseFramesWritten ==
    \A r \in Requests :
        \/ written'[r] = written[r]
        \/ /\ closeReason # NoReason
           /\ written'[r] = Append(written[r], closeFrame(closeReason) \o "\n")

\* C33: loseConnection in connectedNoTransportPending discards the whole
\* buffer, writing it to no request, and enters loseConnectionPending; from
\* then on the buffer stays empty and no request is written a data frame (a
\* late request gets the stored close frame at most), up to and after the
\* disconnection, so none of the discarded messages is ever written.
C33_LoseConnectionDiscardsBuffer ==
    [][/\ (state = connectedNoTransportPending /\ trace'[1] = "loseConnection")
            => /\ raised' = None
               /\ state' = loseConnectionPending
               /\ buffer' = <<>>
               /\ written' = written
       /\ state = loseConnectionPending
            => /\ state' \in {loseConnectionPending, disconnected}
               /\ buffer' = <<>>
               /\ OnlyCloseFramesWritten
       /\ state = disconnected
            => /\ state' = disconnected
               /\ buffer' = buffer
               /\ written' = written]_vars

\* the message "a" was buffered and discarded by loseConnection, and the
\* request that attached afterwards was closed without being written it
C33_Witness ==
    /\ detachedWrites = <<<<"a">>>>
    /\ state = loseConnectionPending
    /\ buffer = <<>>
    /\ trace[1] = "attach"
    /\ finished[nextRequest] = 1
    /\ Len(written[nextRequest]) = 1
    /\ ~Emitted("a")

\* the states from which a lost connection counts as a timeout
PendingStates == {connectedNoTransportPending, loseConnectionPending}

\* C35: when connectionLost reaches the machine with a reason, the wrapped
\* protocol's connectionLost is told SessionTimeout if the machine was in
\* connectedNoTransportPending or loseConnectionPending and the reason is the
\* plain ConnectionDone, and the reason as it came in every other case: any
\* other reason in those two states, and every reason in
\* connectedHaveTransport, connectedNoTransportEmptyBuffer and
\* loseConnectionEmptyBuffer. In every case the machine ends in disconnected.
C35_ReasonDeliveredOnConnectionLost ==
    [][ConnectionLostReached
          => /\ (state \in PendingStates /\ trace'[2] = ConnectionDone)
                  => connectionsLost' = Append(connectionsLost, SessionTimeout)
             /\ (state \in PendingStates /\ trace'[2] # ConnectionDone)
                  => connectionsLost' = Append(connectionsLost, trace'[2])
             /\ state \in {connectedHaveTransport,
                           connectedNoTransportEmptyBuffer,
                           loseConnectionEmptyBuffer}
                  => connectionsLost' = Append(connectionsLost, trace'[2])
             /\ state \in PendingStates \cup {connectedHaveTransport,
                                              connectedNoTransportEmptyBuffer,
                                              loseConnectionEmptyBuffer}
             /\ state' = disconnected]_vars

\* the connection was lost cleanly while a message waited in the buffer: the
\* wrapped protocol was told SessionTimeout
C35_Witness ==
    /\ trace[1] = "connectionLost"
    /\ trace[2] = ConnectionDone
    /\ buffer # <<>>
    /\ connectionsLost = <<SessionTimeout>>
    /\ state = disconnected

\* C36: between inputs the adapter holds a current request exactly when the
\* machine is in connectedHaveTransport, for every session class; so the
\* assertion of _openRequest (no current request) and that of _flushBuffer
\* never fail, on the attach of an XHRSession too, whose writes detach the
\* request inside the attach transition.
C36_CurrentRequestIffHaveTransport ==
    /\ request # NoRequest <=> state = connectedHaveTransport
    /\ raised # "AssertionError"

\* an XHRSession's second request attached from connectedNoTransportPending:
\* the flush wrote the buffer to it and detached it within the attach
C36_Witness ==
    /\ sessionClass = "XHRSession"
    /\ trace[1] = "attach"
    /\ nextRequest = 2
    /\ Runs("openRequest") = 1
    /\ Runs("flushBuffer") = 1
    /\ Runs("finishCurrentRequest") = 1
    /\ finished[2] = 1
    /\ request = NoRequest
    /\ state = connectedNoTransportEmptyBuffer
    /\ raised = None

\* the values the clock's timeoutCall takes: no call, or the one pending
\* call with the ticks left until it is due
TimeoutCalls == {NoCall} \cup (0..TimeoutLength)

\* C37: TimeoutClock.start() on a clock whose call is pending is a no-op
\* that keeps the deadline: loseConnection, and a detach, made while the
\* timeout is pending leave the ticks until it is due as they were, so a
\* timeout started by a detach at t still expires at t + length when
\* loseConnection follows before then; start() on an idle clock arms one call
\* a full length ahead; the clock holds one call at most, which only the
\* passing of time brings nearer.
C37_StartKeepsPendingDeadline ==
    [][/\ (trace'[1] \in {"loseConnection", "detach"} /\ timeoutCall # NoCall)
            => /\ timeoutCall' = timeoutCall
               /\ expired' = expired
       /\ (/\ trace'[1] \in {"loseConnection", "detach"}
           /\ timeoutCall = NoCall
           /\ state = connectedHaveTransport)
            => timeoutCall' = TimeoutLength
       /\ (trace'[1] = "tick" /\ timeoutCall > 0)
            => timeoutCall' = timeoutCall - 1
       /\ timeoutCall' \in TimeoutCalls]_vars

\* the timeout started by the detach was due when loseConnection was called:
\* it is still due, not started afresh
C37_Witness ==
    /\ trace[1] = "loseConnection"
    /\ Runs("completeLoseConnection") = 1
    /\ disconnecting
    /\ state = loseConnectionEmptyBuffer
    /\ timeoutCall = 0
    /\ ~expired

\* a heartbeat call is pending on the reactor
HeartbeatPending == pendingHeartbeat \in 0..HeartbeatPeriod

\* C38 as stated: whatever sequence of schedule(), stop() and fires a
\* HeartbeatClock sees, a stop() made by the write-heartbeat callback during
\* a fire included, once a stop() has returned no heartbeat call is pending,
\* and a stopped clock never invokes its callback again.
C38_NoHeartbeatAfterStop ==
    [][/\ (trace'[1] = "heartbeater.stop" /\ raised' = None)
            => ~HeartbeatPending'
       /\ stopped => trace'[1] # "sendHeartbeat"]_vars

\* the callback stopped the clock during a fire and handled what stop()
\* raised; a later stop() has returned, and a heartbeat call is pending
C38_Witness ==
    /\ trace = <<"heartbeater.stop", "">>
    /\ raised = None
    /\ stopped
    /\ HeartbeatPending

\* the states the machine is in once it has accepted loseConnection
ClosingStates ==
    {loseConnectionEmptyBuffer, loseConnectionPending, disconnected}

\* C39: once the machine has accepted loseConnection (it is in
\* loseConnectionEmptyBuffer or loseConnectionPending, and disconnected after
\* them) it stays in those states and no request is written a data or
\* heartbeat frame: only an arriving request is written anything, which is
\* the stored close frame; write, heartbeat and writeClose raise and change
\* neither state, buffer, stored reason nor any request; a further
\* loseConnection changes none of them either; a receive before the
\* disconnection is accepted and hands the application nothing, and none
\* does after it.
C39_NothingButCloseFramesAfterLoseConnection ==
    [][(state \in ClosingStates)
          => /\ state' \in ClosingStates
             /\ OnlyCloseFramesWritten
             /\ written' # written => NewRequestArrives
             /\ trace'[1] \in {"write", "heartbeat", "writeClose"}
                  => /\ raised' # None
                     /\ state' = state
                     /\ buffer' = buffer
                     /\ closeReason' = closeReason
                     /\ written' = written
             /\ trace'[1] = "loseConnection"
                  => /\ state' = state
                     /\ buffer' = buffer
                     /\ written' = written
             /\ (trace'[1] = "receive" /\ state # disconnected)
                  => /\ raised' = None
                     /\ returned' = "True"
                     /\ state' = state
                     /\ buffer' = buffer
             /\ trace'[1] = "receive" => Runs("app.dataReceived")' = 0]_vars

\* after loseConnection a late request was sent away with the stored close
\* frame, and the write that followed was rejected
C39_Witness ==
    /\ trace = <<"write", "[\"a\"]", "writeData">>
    /\ raised = "NoTransition"
    /\ state = loseConnectionEmptyBuffer
    /\ closeReason # NoReason
    /\ written[2] = <<closeFrame(closeReason) \o "\n">>
    /\ finished[2] = 1

\* C40: over attach, detach, write, loseConnection, a connection lost by the
\* peer and the expiry of the timeout, in any order, the wrapped protocol's
\* connectionLost is called at most once and never before its
\* connectionMade; once it has been called the machine is in disconnected and
\* the adapter has dropped it, and from then on no input is accepted: attach,
\* detach, write and connectionLost raise, and nothing (state, buffer,
\* requests, what the wrapped protocol was told) changes any more.
C40_ConnectionLostOnceAndLast ==
    [][/\ Len(connectionsLost') <= 1
       /\ connectionsLost' # <<>>
            => /\ connectionMadeCalls' = 1
               /\ state' = disconnected
               /\ ~sessionMachine'
       /\ connectionsLost # <<>>
            => /\ connectionsLost' = connectionsLost
               /\ connectionMadeCalls' = connectionMadeCalls
               /\ state' = state
               /\ buffer' = buffer
               /\ request' = request
               /\ written' = written
               /\ finished' = finished
       /\ (/\ connectionsLost # <<>>
           /\ trace'[1] \in {"attach", "reattach", "detach", "write",
                             "connectionLost"})
            => raised' # None]_vars

\* the peer's close reached the wrapped protocol after loseConnection; the
\* timeout that expired later told it nothing more
C40_Witness ==
    /\ trace[1] = "expire"
    /\ expired
    /\ disconnecting
    /\ connectionsLost = <<ConnectionLost>>
    /\ state = disconnected

\* the state an attach, or a write to the attached request, that writes the
\* messages in data ends in: the nested detach of an XHRSession after every
\* frame, and that of an XHRStreamingSession at its limit, leave
\* connectedNoTransportEmptyBuffer
StateAfterFrame(data) ==
    IF \/ sessionClass = "XHRSession"
       \/ /\ sessionClass = "XHRStreamingSession"
          /\ bytesWritten + SumLen(data) >= MaximumBytes
    THEN connectedNoTransportEmptyBuffer
    ELSE connectedHaveTransport

\* C31 as stated: no input is delivered to the machine while the outputs of
\* another are running: an attach step runs neither writeData (the write
\* input) nor finishCurrentRequest (the output of detach), and a write step of
\* an XHRStreamingSession, whose detach comes from inside the write's output,
\* does not run finishCurrentRequest.
C31_NoInputDuringOutputs ==
    /\ trace[1] = "attach"
         => Runs("writeData") = 0 /\ Runs("finishCurrentRequest") = 0
    /\ (trace[1] = "write" /\ sessionClass = "XHRStreamingSession")
         => Runs("finishCurrentRequest") = 0

\* C31: outputs do deliver inputs to the machine they run in, and the nested
\* input runs to its end in the state the outer transition has entered.  The
\* attach from connectedNoTransportPending delivers one write from
\* _flushBuffer, which writes the buffer to the new request as one frame; an
\* XHRSession detaches inside that write and inside the first attach (after
\* the open frame), an XHRStreamingSession inside the write that reaches its
\* limit; the step ends detached with the request finished in those cases
\* and attached otherwise, the buffer empty, nothing raised.  No step
\* delivers more than one nested write and one nested detach.
C31_NestedInputsRunToCompletion ==
    [][/\ (NewRequestArrives /\ state = connectedNoTransportPending)
            => /\ raised' = None
               /\ Runs("flushBuffer")' = 1
               /\ Runs("writeData")' = 1
               /\ Runs("completeWrite")' = 1
               /\ written'[nextRequest'] = <<dataFrame(buffer) \o "\n">>
               /\ buffer' = <<>>
               /\ state' = StateAfterFrame(buffer)
       /\ (NewRequestArrives /\ state = neverConnected)
            => /\ raised' = None
               /\ connectionMadeCalls' = 1
               /\ Runs("writeData")' = 0
               /\ state' = IF sessionClass = "XHRSession"
                           THEN connectedNoTransportEmptyBuffer
                           ELSE connectedHaveTransport
       /\ (trace'[1] = "write" /\ state = connectedHaveTransport)
            => /\ raised' = None
               /\ Runs("writeData")' = 1
               /\ Runs("completeWrite")' = 1
               /\ \E data \in {<<>>, <<Msg(outputs')>>} :
                     /\ trace'[2] = sockJSJSON(data)
                     /\ state' = StateAfterFrame(data)
       /\ (NewRequestArrives
              /\ state \in {neverConnected, connectedNoTransportPending})
            => IF state' = connectedHaveTransport
               THEN /\ Runs("finishCurrentRequest")' = 0
                    /\ finished'[nextRequest'] = 0
                    /\ request' = nextRequest'
               ELSE /\ Runs("finishCurrentRequest")' = 1
                    /\ finished'[nextRequest'] = 1
                    /\ request' = NoRequest
       /\ (trace'[1] = "write" /\ state = connectedHaveTransport)
            => IF state' = connectedHaveTransport
               THEN /\ Runs("finishCurrentRequest")' = 0
                    /\ finished'[request] = 0
                    /\ request' = request
               ELSE /\ Runs("finishCurrentRequest")' = 1
                    /\ finished'[request] = 1
                    /\ request' = NoRequest]_vars

\* an XHRStreamingSession's second request attached from
\* connectedNoTransportPending: the flush delivered a write, the write
\* reached the limit and delivered a detach, all within the attach
C31_Witness ==
    /\ sessionClass = "XHRStreamingSession"
    /\ trace[1] = "attach"
    /\ nextRequest = 2
    /\ Runs("flushBuffer") = 1
    /\ Runs("writeData") = 1
    /\ Runs("finishCurrentRequest") = 1
    /\ written[2] = <<"a[\"a\",\"b\"]\n">>
    /\ finished[2] = 1
    /\ state = connectedNoTransportEmptyBuffer
    /\ buffer = <<>>
    /\ raised = None

====
